---- MODULE Spec2Model ----
(***************************************************************************)
(* rtl-sdr-tui: the thread topology of the receiver (main/UI thread,       *)
(* acquisition thread, command thread, DSP thread, streaming thread), the  *)
(* bounded IQ channel between acquisition and DSP, the unbounded command   *)
(* channel, the shutdown flag, Receiver State and the device it mirrors.   *)
(***************************************************************************)
EXTENDS Integers, Sequences, FiniteSets, TLC

\* ------------------------------------------------------------ constants

\* Frequencies and sample rates are u32 values in Hz. TLC's integers end at
\* 2^31 - 1, so the model counts them in steps of 5 Hz: every constant of the
\* program is a multiple of 5 Hz and so is u32::MAX = 4294967295 = 5 * 858993459,
\* which keeps the u32 range, its saturation point and every sum of two u32
\* values exact and below 2^31. Hz(n) is n Hz on that scale.
Hz(n) == n \div 5

\* u32::MAX (4294967295 Hz)
U32_MAX == 858993459

\* sdr/config.rs, mod constraints
MIN_FREQUENCY == Hz(24000000)
MAX_FREQUENCY == Hz(1766000000)
MIN_SAMPLE_RATE == Hz(225000)
MAX_SAMPLE_RATE == Hz(3200000)

\* state/app_state.rs, SdrState::default
DEFAULT_FREQUENCY == Hz(144390000)
DEFAULT_SAMPLE_RATE == Hz(2048000)
AUTO_GAIN == -1

\* main.rs: channel::bounded(64)
SAMPLES_CHANNEL_CAP == 64

\* main.rs 107: AUDIO_BUFFER_SIZE, the capacity of the audio ring buffer
AUDIO_BUFFER_SIZE == 48000

\* streaming.rs 24: channel::bounded(64)
STREAM_CHANNEL_CAP == 64

\* state/app_state.rs 90, 150: SpectrumState::default, DecoderState::default
MAX_WATERFALL_HISTORY == 500
MAX_MESSAGES == 100

\* ------------------------------------------------------------ bounds

\* IQ batches the device delivers in one run
MaxBatches == 66
\* commands the command source sends in one run
MaxCommands == 2
\* IQ batches already queued for the DSP thread when command processing is observed
PendingBatches == 1

\* listeners that connect to the streaming server in one run
MaxListeners == 2
\* output callbacks the audio device makes in one run
MaxCallbacks == 2
\* IQ batches queued for the DSP thread when the audio path is observed
AudioBatches == 3
\* free slots of the audio ring buffer when it is observed after a backlog
RingFree == 2
\* audio batches queued for the streaming thread when it is observed after a
\* backlog
StreamBacklog == 63
\* audio batches the streaming thread takes from its channel in one run
MaxForwarded == 3
\* rows and messages added beyond the capacity of the waterfall and of the list
ExtraRows == 2
ExtraMessages == 2
\* batches the DSP thread works through beside the UI and command threads
LockRows == 2
\* IQ batches the processing functions are applied to, one after the other
MaxDspBatches == 2
\* calls of resample on one Resampler
MaxResampleCalls == 2
\* length of the one long input of resample
LongLength == 4194306
\* calls of demodulate on one FmDemodulator
MaxFmCalls == 2

\* ------------------------------------------------------------ inputs

\* DemodMode::all(), by index
ModeRaw == 0
ModeFmNarrow == 1
ModeFmWide == 2
ModeAm == 3
ModeUsb == 4
ModeLsb == 5
ModeAprs == 6
ModeAdsb == 7
NumModes == 8

Threads == {"acq", "cmd", "dsp", "stream"}

Listeners == 1..MaxListeners

\* slots of the buffer the audio device hands to the output callback
OutputSlots == 2

\* raw blocks the device delivers, as interleaved I/Q bytes; the device repeats
\* them in this order
RawBlocks ==
    << <<255, 255, 0, 255>>,
       <<255, 255>>,
       <<255, 255, 127, 128, 127, 128, 127, 128>> >>
RawBlock(b) == RawBlocks[((b - 1) % Len(RawBlocks)) + 1]

\* raw blocks the processing functions are applied to: empty, of an odd length,
\* of one IQ sample, and of more samples than a transform of FftSizes takes
BatchBlocks ==
    { <<>>,
      <<255>>,
      <<255, 0>>,
      <<255, 255, 0>>,
      <<255, 255, 0, 255>>,
      <<0, 255, 255, 255, 255, 0>>,
      <<255, 255, 127, 128, 127, 128, 127, 128>>,
      <<255, 0, 0, 0, 0, 255, 255, 255, 255, 0, 0, 0>> }

\* sizes FftProcessor::new is called with (the DSP thread uses 2048)
FftSizes == {2, 3, 4, 5}

\* magnitudes of transform bins, as 20 * log10: 1, 1e-3, 1e-7, 1e-10, 1e-11
MagnitudeDbs == {0, -60, -140, -200, -220}

\* Resampler::new(input_rate, output_rate), rates whose ratio and its inverse
\* are exact in f32
RatePairs ==
    {[in |-> 2, out |-> 1], [in |-> 1, out |-> 2], [in |-> 1, out |-> 1],
     [in |-> 4, out |-> 1], [in |-> 1, out |-> 4]}

\* lengths of the inputs of resample
ResampleLengths == {0, 1, 2, 3, 5, 50, 100}

\* the lengths resample is called with on a Resampler of these rates: the long
\* input is given at 1:4 only; at the other rates a call on it returns millions
\* of samples
ResampleLengthsFor(rates) ==
    IF rates = [in |-> 1, out |-> 4] THEN ResampleLengths \cup {LongLength}
    ELSE ResampleLengths

\* FmDemodulator::new(sample_rate, tau_us): the default of the type, and audio
\* rate with the European time constant
FmNewArgs ==
    {[sample_rate |-> Hz(2048000), tau |-> 75],
     [sample_rate |-> Hz(48000), tau |-> 50]}

\* --frequency, as freq_mhz * 1_000_000.0 before the cast to u32: negative,
\* below the tuner's range, inside it, beyond the u32 range
ArgFrequencies == {Hz(-1000000), Hz(10000000), Hz(100000000), U32_MAX + Hz(1000000)}
\* --gain, in tenths of dB
ArgGains == {200}
NoArg == [some |-> FALSE, val |-> 0]
SomeArg(v) == [some |-> TRUE, val |-> v]

FreqInputs == {0, MIN_FREQUENCY - 1, MIN_FREQUENCY, Hz(100000000),
               MAX_FREQUENCY, MAX_FREQUENCY + 1, U32_MAX}
DeltaInputs == {Hz(1000000), Hz(-100000)}
RateInputs == {Hz(100000), MAX_SAMPLE_RATE, Hz(5000000)}
GainInputs == {200}
\* recording file names, by number
RecordingPaths == {1}
PpmInputs == {25}

Cmd(op, arg) == [op |-> op, arg |-> arg]
NoCommand == Cmd("None", 0)
QuitCommand == Cmd("Quit", 0)

\* types/commands.rs, enum Command: the values a command source may send
CommandInputs ==
    {Cmd("SetFrequency", f) : f \in FreqInputs}
    \cup {Cmd("IncreaseFrequency", d) : d \in DeltaInputs}
    \cup {Cmd("DecreaseFrequency", d) : d \in DeltaInputs}
    \cup {Cmd("SetSampleRate", r) : r \in RateInputs}
    \cup {Cmd("SetTunerGain", g) : g \in GainInputs}
    \cup {Cmd("SetAutoGain", b) : b \in {0, 1}}
    \cup {Cmd("SetPpmError", p) : p \in PpmInputs}
    \cup {Cmd("StartRecording", p) : p \in RecordingPaths}
    \cup {Cmd("StopRecording", 0)}

VARIABLES
    args,         \* command-line arguments of run
    main_pc,      \* position of run (the main/UI thread)
    run_result,   \* "none" | "ok" | "err" | OpenError: what run returned
    thread,       \* position of each spawned thread
    joined,       \* threads whose JoinHandle the owner has joined
    shutdown,     \* the shared AtomicBool
    should_quit,  \* state.ui.should_quit
    sdr,          \* state.sdr (Receiver State, device config)
    mode,         \* state.decoder.mode
    recording,    \* state.recording
    dev,          \* configuration the hardware has accepted
    hw_call,      \* last configuration call made to the hardware
    command_q,    \* the unbounded command channel
    sent,         \* commands sent by the command source so far
    last_cmd,     \* last command the command thread received
    repeated,     \* history: that command repeated the one before it, which the
                  \* hardware had accepted
    samples_ch,   \* the bounded IQ channel, batches by sequence number
    produced,     \* batches the acquisition callback has built
    received,     \* batches the DSP thread has received, in order
    acq_last,     \* outcome of the last acquisition callback
    dsp_demod,    \* demodulator the DSP thread ran on its last batch
    spectrum,     \* state.spectrum
    rows_added,   \* rows added to the spectrum so far
    messages,     \* state.decoder.messages
    msgs_added,   \* messages added to the list so far
    dsp_audio,    \* DSP thread: the audio batch it is handing to the sinks
    dsp_i,        \* DSP thread: index in dsp_audio of the next sample to push
    ring,         \* the audio ring buffer, oldest sample first, as runs
    offered,      \* samples offered to the ring so far
    ring_last,    \* outcome of the last try_push
    popped,       \* numbers of the samples the output callback has popped
    audio_out,    \* the output buffer of the current (or last) output callback
    callbacks,    \* output callbacks completed
    stream_ch,    \* the bounded channel to the streaming thread
    stream_sent,  \* audio batches offered to stream_ch so far
    stream_last,  \* outcome of the last try_send on stream_ch
    clients,      \* streaming thread: the active listeners, in accept order
    accepted,     \* listeners accepted so far
    failed,       \* listeners dropped after a failed write
    forwarded,    \* numbers of the batches the streaming thread has received
    written,      \* per listener: numbers of the batches written to it, in order
    joined_at,    \* per listener: Len(forwarded) when it was accepted
    stream_pcm,   \* streaming thread: the PCM batch being written
    stream_i,     \* streaming thread: index in clients of the next write
    lock,         \* the RwLock around Receiver State: its writer and its readers
    lock_pc,      \* per thread: the operation it is in at a site that locks
    new_freq,     \* command thread: new_freq of the adjust handler
    fft_size,     \* FftProcessor.size (0: no processor constructed)
    input_buffer, \* FftProcessor.input_buffer
    fft_prev_in,  \* history: input_buffer before the last call of process
    fft_result,   \* what the last call of process returned
    raw,          \* the raw block of the batch in work
    iq,           \* the IQ batch in work
    iq_all,       \* history: the IQ samples of all batches demodulated
    audio_last,   \* the audio batch of the last batch, Option<Vec<f32>>
    audio_total,    \* history: the audio samples of all batches, in order
    tau_us,       \* tau of the last apply_deemphasis, in microseconds (0: none)
    batches,      \* batches demodulated
    batch_pc,     \* "convert" | "fft" | "demod": next step on the batch in work
    rs_rates,     \* Resampler.input_rate and output_rate
    rs_phase,     \* Resampler.phase, in units of 1 / output_rate
    rs_fed,       \* samples given to resample since the phase was last 0 by
                  \* construction or reset
    rs_out_all,   \* outputs of those calls, in order, in units of 1 / output_rate
    rs_calls,     \* those calls
    rs_last,      \* "new" | "resample" | "reset": last operation on the
                  \* Resampler; "hung": it is in a call that does not return
    fm,           \* the FmDemodulator: prev_sample, deemph_state, deemph_alpha
    fm_fed,       \* IQ samples given to demodulate since construction or reset
    fm_out_all,   \* audio returned by those calls, in order
    fm_last_in,   \* input of the last call of demodulate
    fm_last_out,  \* what it returned
    fm_calls,     \* those calls
    fm_last       \* "none" | "new" | "demodulate" | "reset": last operation on it

lifeVars == <<args, main_pc, run_result, thread, joined, shutdown, should_quit>>
cmdVars == <<sdr, mode, recording, dev, hw_call, command_q, sent, last_cmd, repeated>>
pipeVars == <<samples_ch, produced, received, acq_last, dsp_demod>>
displayVars == <<spectrum, rows_added, messages, msgs_added>>
audioVars == <<dsp_audio, dsp_i, ring, offered, ring_last, popped, audio_out,
               callbacks>>
streamVars == <<stream_ch, stream_sent, stream_last, clients, accepted, failed,
                forwarded, written, joined_at, stream_pcm, stream_i>>
lockVars == <<lock, lock_pc, new_freq>>
batchVars == <<fft_size, input_buffer, fft_prev_in, fft_result, raw, iq, iq_all,
               audio_last, audio_total, tau_us, batches, batch_pc>>
resampleVars == <<rs_rates, rs_phase, rs_fed, rs_out_all, rs_calls, rs_last>>
fmVars == <<fm, fm_fed, fm_out_all, fm_last_in, fm_last_out, fm_calls, fm_last>>
pureVars == <<batchVars, resampleVars, fmVars>>
sinkVars == <<displayVars, audioVars, streamVars, lockVars, pureVars>>
vars == <<args, main_pc, run_result, thread, joined, shutdown, should_quit,
          sdr, mode, recording, dev, hw_call, command_q, sent, last_cmd, repeated,
          samples_ch, produced, received, acq_last, dsp_demod,
          spectrum, rows_added, messages, msgs_added,
          dsp_audio, dsp_i, ring, offered, ring_last, popped, audio_out, callbacks,
          stream_ch, stream_sent, stream_last, clients, accepted, failed,
          forwarded, written, joined_at, stream_pcm, stream_i,
          lock, lock_pc, new_freq,
          fft_size, input_buffer, fft_prev_in, fft_result, raw, iq, iq_all,
          audio_last, audio_total, tau_us, batches, batch_pc,
          rs_rates, rs_phase, rs_fed, rs_out_all, rs_calls, rs_last,
          fm, fm_fed, fm_out_all, fm_last_in, fm_last_out, fm_calls, fm_last>>

\* ------------------------------------------------------------ helpers

\* u32::clamp
Clamp(x, lo, hi) == IF x < lo THEN lo ELSE IF x > hi THEN hi ELSE x

\* `as u32` on an f64: saturating
CastF64ToU32(x) == IF x < 0 THEN 0 ELSE IF x > U32_MAX THEN U32_MAX ELSE x

\* `as u32` on an i32: two's complement reinterpretation, d + 2^32 for d < 0
\* (2^32 Hz = u32::MAX + 1 Hz, which the 5 Hz scale rounds down to u32::MAX)
CastI32ToU32(d) == IF d < 0 THEN U32_MAX + d ELSE d

\* u32::saturating_add, u32::saturating_sub
SaturatingAdd(a, b) == IF a + b > U32_MAX THEN U32_MAX ELSE a + b
SaturatingSub(a, b) == IF a - b < 0 THEN 0 ELSE a - b

Running(t) == thread[t] \notin {"unspawned", "stopped"}
ProcessAlive == main_pc # "exited"

\* SdrState::default
DefaultSdr ==
    [frequency |-> DEFAULT_FREQUENCY, sample_rate |-> DEFAULT_SAMPLE_RATE,
     tuner_gain |-> AUTO_GAIN, auto_gain |-> TRUE, ppm_error |-> 0]

\* the device as opened, before any configuration call
UnconfiguredDev == [freq |-> 0, rate |-> 0, gain |-> 0, agc |-> FALSE, ppm |-> 0]

\* RecordingState::default
DefaultRecording ==
    [is_recording |-> FALSE, file_path |-> NoArg, samples_recorded |-> 0,
     start_time |-> NoArg]

\* state/app_state.rs 198-203: RecordingState::start at time now
RecordingStart(r, path, now) ==
    [is_recording |-> TRUE, file_path |-> SomeArg(path), samples_recorded |-> 0,
     start_time |-> SomeArg(now)]

\* state/app_state.rs 206-210: RecordingState::stop
RecordingStop(r) ==
    [r EXCEPT !.is_recording = FALSE, !.file_path = NoArg, !.start_time = NoArg]

NoCall == [op |-> "none", arg |-> 0, ok |-> TRUE]
Call(op, arg, ok) == [op |-> op, arg |-> arg, ok |-> ok]

\* ------------------------------------------------------------ signal values
\* IQ components and audio samples are f32 values. The model counts them in
\* units of 1/256: (byte - 127.5) / 128.0 is then the integer 2 * byte - 255,
\* exactly, and 1.0 is ONE. Results of divisions and of sqrt are cut to that
\* grid (toward zero); f32 rounding below 1/256 is not modelled.
ONE == 256

\* Complex::new(1.0, 0.0)
ComplexOne == [re |-> ONE, im |-> 0]

\* division cut toward zero
Div(a, b) == IF a >= 0 THEN a \div b ELSE -((-a) \div b)

Min2(a, b) == IF a < b THEN a ELSE b
Max2(a, b) == IF a > b THEN a ELSE b

RECURSIVE SumSeq(_)
SumSeq(q) == IF q = <<>> THEN 0 ELSE Head(q) + SumSeq(Tail(q))

\* mutant: the bytes are centred at 128
U8ToF32Centred128(b) == 2 * b - 256

\* sdr/device.rs 158-169: samples_u8_to_complex (chunks_exact(2) drops an odd
\* trailing byte)
U8ToF32(b) == 2 * b - 255
SamplesU8ToComplex(bytes) ==
    [k \in 1..(Len(bytes) \div 2) |->
        [re |-> U8ToF32(bytes[2 * k - 1]), im |-> U8ToF32(bytes[2 * k])]]

\* Complex::norm
Norm(z) ==
    LET sq == z.re * z.re + z.im * z.im
    IN  CHOOSE r \in 0..(2 * ONE) : r * r <= sq /\ (r + 1) * (r + 1) > sq

\* (w1 * w0.conj()).arg() / PI: exact for a product on an axis or a diagonal,
\* any other product is taken at the middle of its octant
ArgOverPi(w1, w0) ==
    LET re == w1.re * w0.re + w1.im * w0.im
        im == w1.im * w0.re - w1.re * w0.im
        a == IF re < 0 THEN -re ELSE re
        b == IF im < 0 THEN -im ELSE im
        \* eighths of PI, in the first quadrant
        q == IF b = 0 THEN 0 ELSE IF a = 0 THEN 4 ELSE IF b < a THEN 1
             ELSE IF b = a THEN 2 ELSE 3
        e == IF re >= 0 THEN q ELSE 8 - q
    IN  (IF im < 0 THEN -e ELSE e) * (ONE \div 8)

\* dsp/thread.rs 215-232: lowpass_filter, a moving average over
\* [i - window/2, i + window/2] cut at the ends of the input
LowpassFilter(input, window_size) ==
    IF window_size <= 1 THEN input
    ELSE [i \in 1..Len(input) |->
            LET start == Max2(1, i - window_size \div 2)
                end == Min2(Len(input), i + window_size \div 2)
            IN  Div(SumSeq(SubSeq(input, start, end)), end - start + 1)]

\* dsp/thread.rs 143-150: alpha = 1 / (1 + 2 PI tau 48000), tau = 75e-6 (wide)
\* or 50e-6, as a fraction of ALPHA_DEN: 0.04234 and 0.06219
ALPHA_DEN == 4096
ALPHA_WIDE == 173
ALPHA_NARROW == 255

\* dsp/thread.rs 152-160: y[n] = alpha * x[n] + (1 - alpha) * y[n-1], y[-1] = x[0]
RECURSIVE DeemphasisFrom(_, _, _)
DeemphasisFrom(input, prev, alpha) ==
    IF input = <<>> THEN <<>>
    ELSE LET filtered ==
                 Div(alpha * Head(input) + (ALPHA_DEN - alpha) * prev, ALPHA_DEN)
         IN  <<filtered>> \o DeemphasisFrom(Tail(input), filtered, alpha)

\* dsp/thread.rs 143: tau, in microseconds
DeemphasisTau(wideband) == IF wideband THEN 75 ELSE 50

\* dsp/thread.rs 150: alpha of a time constant
Alpha(tau) == IF tau = 75 THEN ALPHA_WIDE ELSE ALPHA_NARROW

\* dsp/thread.rs 135-163: apply_deemphasis
ApplyDeemphasis(input, wideband) ==
    IF input = <<>> THEN <<>>
    ELSE DeemphasisFrom(input, input[1], Alpha(DeemphasisTau(wideband)))

\* mutant: the discriminator starts from a carried sample, 1 + 0i, and returns
\* one value for each sample
FmDiscriminatorCarried(samples) ==
    [i \in 1..Len(samples) |->
        ArgOverPi(samples[i],
                  IF i = 1 THEN [re |-> ONE, im |-> 0] ELSE samples[i - 1])]

\* dsp/thread.rs 110-118: the polar discriminator over samples.windows(2)
FmDiscriminator(samples) ==
    [i \in 1..(Len(samples) - 1) |-> ArgOverPi(samples[i + 1], samples[i])]

\* dsp/thread.rs 123: filter_size
FmFilterSize(wideband) == IF wideband THEN 8 ELSE 4

\* dsp/thread.rs 102-130: demodulate_fm
DemodulateFm(samples, wideband) ==
    IF Len(samples) < 2 THEN <<>>
    ELSE LET audio == FmDiscriminator(samples)
             filtered == LowpassFilter(audio, FmFilterSize(wideband))
         IN  ApplyDeemphasis(filtered, wideband)

\* mutant: an empty batch gives one sample of silence
DemodulateAmSilence(samples) ==
    IF samples = <<>> THEN <<0>>
    ELSE [i \in 1..Len(samples) |-> Norm(samples[i])]

\* dsp/thread.rs 166-173: demodulate_am (the mean of an empty envelope is NaN,
\* and is used by no sample)
DemodulateAm(samples) ==
    LET envelope == [i \in 1..Len(samples) |-> Norm(samples[i])]
        dc == IF envelope = <<>> THEN 0
              ELSE Div(SumSeq(envelope), Len(envelope))
    IN  [i \in 1..Len(envelope) |-> envelope[i] - dc]

\* cos and sin of the BFO phase 2 PI 1500 i / 48000 = i PI / 16, in units of 1/ONE
CosTable == <<256, 251, 237, 213, 181, 142, 98, 50, 0>>
BfoCos(i) ==
    LET k == i % 32
    IN  IF k <= 8 THEN CosTable[k + 1]
        ELSE IF k <= 16 THEN -CosTable[17 - k]
        ELSE IF k <= 24 THEN -CosTable[k - 15]
        ELSE CosTable[33 - k]
BfoSin(i) == BfoCos(i + 24)

\* dsp/thread.rs 195-208: the product of the samples with the BFO (i counts
\* from 0)
SsbProduct(samples, upper) ==
    [k \in 1..Len(samples) |->
        LET c == samples[k].re * BfoCos(k - 1)
            q == samples[k].im * BfoSin(k - 1)
        IN  Div(IF upper THEN c - q ELSE c + q, ONE)]

\* dsp/thread.rs 211: the window of the filter of demodulate_ssb
SsbFilterSize == 4

\* dsp/thread.rs 178-212: demodulate_ssb
DemodulateSsb(samples, upper) ==
    LowpassFilter(SsbProduct(samples, upper), SsbFilterSize)

\* dsp/thread.rs 49-71: the audio batch of a mode, Option<Vec<f32>>
Demodulate(m, samples) ==
    CASE m \in {ModeFmNarrow, ModeFmWide} ->
           SomeArg(DemodulateFm(samples, m = ModeFmWide))
      [] m = ModeAm -> SomeArg(DemodulateAm(samples))
      [] m = ModeUsb -> SomeArg(DemodulateSsb(samples, TRUE))
      [] m = ModeLsb -> SomeArg(DemodulateSsb(samples, FALSE))
      [] m \in {ModeAprs, ModeAdsb} -> SomeArg(DemodulateFm(samples, FALSE))
      [] OTHER -> NoArg

\* dsp/thread.rs 238: sample.max(-1.0).min(1.0)
ClampSample(v) == Min2(Max2(v, -ONE), ONE)

\* dsp/thread.rs 49-66, 102-143: the tau apply_deemphasis computes when the
\* batch is demodulated in mode m; 0 when it does not get that far
TauUsed(m, samples) ==
    IF m \in {ModeFmNarrow, ModeFmWide, ModeAprs, ModeAdsb} /\ Len(samples) >= 2
    THEN DeemphasisTau(m = ModeFmWide)
    ELSE 0

\* ------------------------------------------------------------ FM demodulator

\* dsp/demod/fm.rs 22-23: deemph_alpha = 1 / (1 + sample_rate * tau_us * 1e-6),
\* as a fraction of ALPHA_DEN (sample_rate on the 5 Hz scale)
FmAlpha(sample_rate, tau) ==
    (ALPHA_DEN * 1000) \div (1000 + (sample_rate * tau) \div 200)

\* no FmDemodulator constructed: the DSP thread makes none
FmNone == [prev_sample |-> ComplexOne, deemph_state |-> 0, deemph_alpha |-> 0]

\* dsp/demod/fm.rs 20-30: FmDemodulator::new
FmDemodulatorNew(sample_rate, tau) ==
    [prev_sample |-> ComplexOne, deemph_state |-> 0,
     deemph_alpha |-> FmAlpha(sample_rate, tau)]

\* dsp/demod/fm.rs 38-54: the body of the loop, for one sample
FmStep(d, sample) ==
    LET demod == ArgOverPi(sample, d.prev_sample)
        state == Div(d.deemph_state * (ALPHA_DEN - d.deemph_alpha)
                       + demod * d.deemph_alpha, ALPHA_DEN)
    IN  [d |-> [d EXCEPT !.deemph_state = state, !.prev_sample = sample],
         out |-> ClampSample(state)]

RECURSIVE FmLoop(_, _, _)
FmLoop(d, samples, audio) ==
    IF samples = <<>> THEN [d |-> d, audio |-> audio]
    ELSE LET r == FmStep(d, Head(samples))
         IN  FmLoop(r.d, Tail(samples), Append(audio, r.out))

\* mutant: the fields are as before the call when it returns
FmDemodulateStateless(d, samples) ==
    [d |-> d, audio |-> FmLoop(d, samples, <<>>).audio]

\* dsp/demod/fm.rs 35-58: FmDemodulator::demodulate
FmDemodulate(d, samples) == FmLoop(d, samples, <<>>)

\* dsp/demod/fm.rs 61-64: FmDemodulator::reset
FmReset(d) == [d EXCEPT !.prev_sample = ComplexOne, !.deemph_state = 0]

\* ------------------------------------------------------------ spectral transform
\* The transform of rustfft is left uninterpreted: the dB value of output bin i
\* (counted from 0) is named by i and its magnitude is an input, with the one
\* fact used that a transform of zeros has magnitude 0 everywhere.

ComplexZero == [re |-> 0, im |-> 0]

\* dsp/fft.rs 84-91: hann_window, 0.5 * (1 - cos(2 PI i / (size - 1))), in
\* quarters; exact for the sizes of FftSizes
HannWindow(size) ==
    CASE size = 2 -> <<0, 0>>
      [] size = 3 -> <<0, 4, 0>>
      [] size = 4 -> <<0, 3, 3, 0>>
      [] OTHER -> <<0, 2, 4, 2, 0>>

\* samples[i] * self.window[i]
Windowed(z, w) == [re |-> z.re * w, im |-> z.im * w]

\* mutant: the buffer is not zero-padded behind a short batch
FillInputBufferNoPad(buf, samples, size) ==
    [i \in 1..size |->
        IF i <= Min2(Len(samples), size)
        THEN Windowed(samples[i], HannWindow(size)[i])
        ELSE buf[i]]

\* dsp/fft.rs 37-47: the first size samples, windowed, and zeros behind them
FillInputBuffer(buf, samples, size) ==
    LET sample_count == Min2(Len(samples), size)
    IN  [i \in 1..size |->
            IF i <= sample_count
            THEN Windowed(samples[i], HannWindow(size)[i])
            ELSE ComplexZero]

\* dsp/fft.rs 60: a slot of result the loop has not written holds 0.0
Unwritten == [bin |-> -1, mag |-> [zero |-> TRUE, db20 |-> 0], db |-> 0]

\* 20 * log10 of 1e-10, the threshold of dsp/fft.rs 71, and the value of line 74
THRESHOLD_DB == -200
FLOOR_DB == -100

\* a magnitude: zero, or 20 * log10 of it in whole dB
MagZero == [zero |-> TRUE, db20 |-> 0]
MagOf(d) == [zero |-> FALSE, db20 |-> d]

\* Complex::norm of the bins of the transform of buf: zero for a buffer of
\* zeros; for any other buffer one of MagnitudeDbs, the same in every bin, as
\* the transform of a buffer with one entry a that is not zero has |a| in every
\* bin
OutputMagnitudes(buf) ==
    IF \A k \in 1..Len(buf) : buf[k] = ComplexZero THEN {MagZero}
    ELSE {MagOf(d) : d \in MagnitudeDbs}

\* dsp/fft.rs 70-75: db
MagnitudeToDb(m) ==
    IF ~m.zero /\ m.db20 > THRESHOLD_DB THEN m.db20 ELSE FLOOR_DB

\* dsp/fft.rs 67-77: what the loop stores for output bin i of magnitude m
BinDb(i, m) == [bin |-> i, mag |-> m, db |-> MagnitudeToDb(m)]

\* dsp/fft.rs 61, 65: shifted_idx
ShiftedIdx(i, size) ==
    LET half == size \div 2
    IN  IF i < half THEN i + half ELSE i - half

\* dsp/fft.rs 63-78: the loop from bin i on
RECURSIVE ShiftFrom(_, _, _)
ShiftFrom(result, i, m) ==
    IF i >= Len(result) THEN result
    ELSE ShiftFrom([result EXCEPT ![ShiftedIdx(i, Len(result)) + 1] = BinDb(i, m)],
                   i + 1, m)

\* dsp/fft.rs 59-81: fft_shift_and_magnitude on size bins of magnitude m
FftShiftAndMagnitude(size, m) ==
    ShiftFrom([k \in 1..size |-> Unwritten], 0, m)

\* ------------------------------------------------------------ resampler
\* Positions are counted in units of 1 / output_rate input samples, so that
\* the step 1 / ratio is input_rate; output values are kept multiplied by
\* output_rate, which keeps the interpolation exact.

\* the k-th sample given to a Resampler (k from 1)
RsValue(k) == k * k

\* mutant: the position advances by one input sample whatever the ratio
ResampleStepUnit(rates) == rates.out

\* dsp/resampler.rs 49: pos += 1.0 / self.ratio
ResampleStep(rates) == rates.in

\* dsp/resampler.rs 41-50: the loop from position phase on: it runs once for
\* each position phase + k * step below the last input sample. Returns the
\* output and the final position.
ResampleLoop(input, phase, rates) ==
    LET limit == (Len(input) - 1) * rates.out
        step == ResampleStep(rates)
        count == IF phase < limit THEN ((limit - phase - 1) \div step) + 1 ELSE 0
    IN  [output |->
            [k \in 1..count |->
                LET pos == phase + (k - 1) * step
                    idx == pos \div rates.out
                    frac == pos % rates.out
                IN  input[idx + 1] * (rates.out - frac) + input[idx + 2] * frac],
         pos |-> phase + count * step]

\* f32 has a 24-bit significand: a multiple m * u of a power of two u is held
\* exactly up to m = 2^24, and from there on adding u changes nothing (the sum
\* lies halfway to the next value and rounds to the even one, m * u itself)
F32_EXACT == 16777216

\* dsp/resampler.rs 41-50: `pos += 1.0 / self.ratio` stops advancing before the
\* loop condition fails. Decided for input_rate 1 and output_rate a power of two,
\* where 1.0 / ratio is the unit 1 / output_rate and every pos below the stall
\* is exact; n is input.len()
ResampleStalls(n, phase, rates) ==
    /\ n >= 1
    /\ rates.in = 1
    /\ phase <= F32_EXACT
    /\ (n - 1) * rates.out > F32_EXACT

\* dsp/resampler.rs 30-59: Resampler::resample from the phase given. Returns
\* the output and the phase saved.
Resample(input, phase, rates) ==
    IF input = <<>> THEN [output |-> <<>>, phase |-> phase]
    ELSE LET r == ResampleLoop(input, phase, rates)
         IN  [output |-> r.output,
              phase |-> Max2(r.pos - (Len(input) - 1) * rates.out, 0)]

\* ------------------------------------------------------------ Receiver State: display
\* A spectrum row is named by its insertion number; ZeroRow is a row of the
\* initial fill, vec![0.0; data.len()]. The waterfall Vec is written as its
\* length and the slots written so far: add_fft_data writes the slots in order
\* from the first, so that the slots still holding the initial fill are the
\* last ones, and they are left out.
ZeroRow == 0

\* SpectrumState::default (waterfall_index counts from 0, as in the source)
DefaultSpectrum ==
    [fft_data |-> ZeroRow, waterfall |-> <<>>, waterfall_len |-> 0,
     waterfall_index |-> 0]

\* self.waterfall[i], i counting from 0
WaterfallRow(sp, i) ==
    IF i < Len(sp.waterfall) THEN sp.waterfall[i + 1] ELSE ZeroRow

\* self.waterfall[i] = data
WaterfallSet(rows, i, data) ==
    IF i < Len(rows) THEN [rows EXCEPT ![i + 1] = data]
    ELSE [k \in 1..(i + 1) |->
            IF k <= Len(rows) THEN rows[k] ELSE IF k = i + 1 THEN data ELSE ZeroRow]

\* mutant: the row goes to the waterfall and fft_data keeps the row before it
AddFftDataKeepLatest(sp, data) ==
    LET len == IF sp.waterfall_len = 0 THEN MAX_WATERFALL_HISTORY
               ELSE sp.waterfall_len
    IN  [sp EXCEPT !.waterfall = WaterfallSet(sp.waterfall, sp.waterfall_index, data),
                   !.waterfall_len = len,
                   !.waterfall_index = (sp.waterfall_index + 1) % len]

\* state/app_state.rs 97-110: SpectrumState::add_fft_data
AddFftData(sp, data) ==
    LET len == IF sp.waterfall_len = 0 THEN MAX_WATERFALL_HISTORY
               ELSE sp.waterfall_len
    IN  IF sp.waterfall_index < len
        THEN [fft_data |-> data,
              waterfall |-> WaterfallSet(sp.waterfall, sp.waterfall_index, data),
              waterfall_len |-> len,
              waterfall_index |-> (sp.waterfall_index + 1) % len]
        ELSE [sp EXCEPT !.fft_data = data, !.waterfall_len = len]

\* mutant: the rows are returned in slot order
GetWaterfallDisplayUnrotated(sp) ==
    [k \in 1..sp.waterfall_len |-> WaterfallRow(sp, k - 1)]

\* state/app_state.rs 113-131: SpectrumState::get_waterfall_display
GetWaterfallDisplay(sp) ==
    IF sp.waterfall_len = 0 THEN <<>>
    ELSE [k \in 1..(sp.waterfall_len - sp.waterfall_index) |->
             WaterfallRow(sp, sp.waterfall_index + k - 1)]
         \o [k \in 1..sp.waterfall_index |-> WaterfallRow(sp, k - 1)]

\* mutant: a full list refuses the new message
AddMessageKeepOldest(msgs, message) ==
    IF Len(msgs) >= MAX_MESSAGES THEN msgs ELSE Append(msgs, message)

\* state/app_state.rs 157-164: DecoderState::add_message
AddMessage(msgs, message) ==
    LET pushed == Append(msgs, message)
    IN  IF Len(pushed) > MAX_MESSAGES THEN Tail(pushed) ELSE pushed

\* ------------------------------------------------------------ audio ring buffer
\* The ring holds samples, oldest first. A sample is [n, v]: v its value, n its
\* number among the samples offered to the ring. The ring is written as runs
\* [n, count, v]: count samples numbered n, n + 1, ... of the value v.
Sample(n, v) == [n |-> n, v |-> v]
NoSample == Sample(0, 0)

RECURSIVE RingLen(_)
RingLen(rb) == IF rb = <<>> THEN 0 ELSE Head(rb).count + RingLen(Tail(rb))

\* mutant: the ring takes the sample whatever its length
TryPushUnbounded(rb, sample) ==
    Append(rb, [n |-> sample.n, count |-> 1, v |-> sample.v])

\* ringbuf Producer::try_push: Err(sample) when the ring is full
TryPush(rb, sample) ==
    IF RingLen(rb) < AUDIO_BUFFER_SIZE
    THEN Append(rb, [n |-> sample.n, count |-> 1, v |-> sample.v])
    ELSE rb

\* ringbuf Consumer::try_pop: None when the ring is empty
TryPop(rb) ==
    IF rb = <<>> THEN [some |-> FALSE, sample |-> NoSample, ring |-> rb]
    ELSE LET h == Head(rb)
         IN  [some |-> TRUE,
              sample |-> Sample(h.n, h.v),
              ring |-> IF h.count > 1
                       THEN <<[h EXCEPT !.n = h.n + 1, !.count = h.count - 1]>>
                            \o Tail(rb)
                       ELSE Tail(rb)]

\* ------------------------------------------------------------ the state lock

\* the threads that share Receiver State: the UI thread, the command thread and
\* the DSP thread
LockThreads == {"main", "cmd", "dsp"}

\* parking_lot RwLock: one writer or any number of readers
Unlocked == [writer |-> "none", readers |-> {}]
CanRead(l) == l.writer = "none"
CanWrite(l) == l.writer = "none" /\ l.readers = {}
LockRead(l, t) == [l EXCEPT !.readers = @ \cup {t}]
LockWrite(l, t) == [l EXCEPT !.writer = t]
DropGuard(l, t) ==
    [writer |-> IF l.writer = t THEN "none" ELSE l.writer,
     readers |-> l.readers \ {t}]
Holds(t) == lock.writer = t \/ t \in lock.readers

\* ------------------------------------------------------------ initial states

InitCommon ==
    /\ run_result = "none"
    /\ joined = {}
    /\ shutdown = FALSE
    /\ should_quit = FALSE
    /\ recording = DefaultRecording
    /\ hw_call = NoCall
    /\ command_q = <<>>
    /\ sent = 0
    /\ last_cmd = NoCommand
    /\ repeated = FALSE
    /\ received = <<>>
    /\ dsp_demod = "none"
    /\ spectrum = DefaultSpectrum
    /\ rows_added = 0
    /\ messages = <<>>
    /\ msgs_added = 0
    /\ dsp_audio = <<>>
    /\ dsp_i = 0
    /\ ring_last = "none"
    /\ popped = <<>>
    /\ audio_out = <<>>
    /\ callbacks = 0
    /\ stream_sent = 0
    /\ stream_last = "none"
    /\ clients = <<>>
    /\ accepted = 0
    /\ failed = {}
    /\ forwarded = <<>>
    /\ written = [c \in Listeners |-> <<>>]
    /\ joined_at = [c \in Listeners |-> 0]
    /\ stream_pcm = <<>>
    /\ stream_i = 0
    /\ lock = Unlocked
    /\ lock_pc = [t \in LockThreads |-> "idle"]
    /\ new_freq = 0
    /\ fm = FmNone
    /\ fm_fed = <<>>
    /\ fm_out_all = <<>>
    /\ fm_last_in = <<>>
    /\ fm_last_out = <<>>
    /\ fm_calls = 0
    /\ fm_last = "none"

\* no FftProcessor constructed and no batch in work
InitBatchIdle ==
    /\ fft_size = 0
    /\ input_buffer = <<>>
    /\ fft_prev_in = <<>>
    /\ fft_result = <<>>
    /\ raw = <<>>
    /\ iq = <<>>
    /\ iq_all = <<>>
    /\ audio_last = NoArg
    /\ audio_total = <<>>
    /\ tau_us = 0
    /\ batches = 0
    /\ batch_pc = "convert"

\* dsp/resampler.rs 15-24: Resampler::new
ResamplerNew(rates) ==
    /\ rs_rates = rates
    /\ rs_phase = 0
    /\ rs_fed = 0
    /\ rs_out_all = <<>>
    /\ rs_calls = 0
    /\ rs_last = "new"

\* the program constructs no Resampler
InitResampleIdle == ResamplerNew([in |-> 1, out |-> 1])

\* the process at the entry of run
Init ==
    /\ InitCommon
    /\ InitBatchIdle
    /\ InitResampleIdle
    /\ args \in [frequency : {NoArg} \cup {SomeArg(f) : f \in ArgFrequencies},
                 gain : {NoArg} \cup {SomeArg(g) : g \in ArgGains},
                 audio_port : BOOLEAN]
    /\ main_pc = "args"
    /\ thread = [t \in Threads |-> "unspawned"]
    /\ mode = ModeFmNarrow
    /\ sdr = DefaultSdr
    /\ dev = UnconfiguredDev
    /\ samples_ch = <<>>
    /\ produced = 0
    /\ acq_last = "none"
    /\ ring = <<>>
    /\ offered = 0
    /\ stream_ch = <<>>

\* ------------------------------------------------------------ run (main thread)

\* sdr/thread.rs 25-26: the error of a failed rtlsdr_mt::open, "Failed to open
\* RTL-SDR device"
OpenError == "err_open"

\* run returns to main: every value it owns is dropped (command_tx among them)
Return(res) ==
    /\ main_pc' = "returned"
    /\ run_result' = res

\* main.rs 81-95: command-line arguments written into the fresh Receiver State
ApplyArgs(s, a) ==
    LET s1 == IF a.frequency.some
              THEN [s EXCEPT !.frequency = CastF64ToU32(a.frequency.val)]
              ELSE s
    IN  IF a.gain.some
        THEN [s1 EXCEPT !.tuner_gain = a.gain.val, !.auto_gain = FALSE]
        ELSE s1

MainApplyArgs ==
    /\ main_pc = "args"
    /\ sdr' = ApplyArgs(sdr, args)
    /\ main_pc' = "start_stream"
    /\ UNCHANGED <<args, run_result, thread, joined, shutdown, should_quit>>
    /\ UNCHANGED <<mode, recording, dev, hw_call, command_q, sent, last_cmd, repeated>>
    /\ UNCHANGED pipeVars
    /\ UNCHANGED sinkVars

\* main.rs 111-117, streaming.rs 20-37: bind the listener (fallible), spawn the
\* streaming thread; its JoinHandle is dropped
MainStartStreaming ==
    /\ main_pc = "start_stream"
    /\ \E bind_ok \in BOOLEAN :
         IF ~args.audio_port
         THEN /\ main_pc' = "start_sdr"
              /\ UNCHANGED <<run_result, thread>>
         ELSE IF bind_ok
         THEN /\ main_pc' = "start_sdr"
              /\ thread' = [thread EXCEPT !["stream"] = "check"]
              /\ UNCHANGED run_result
         ELSE /\ Return("err")
              /\ UNCHANGED thread
    /\ UNCHANGED <<args, joined, shutdown, should_quit>>
    /\ UNCHANGED cmdVars
    /\ UNCHANGED pipeVars
    /\ UNCHANGED sinkVars

\* sdr/thread.rs 26-51: open the device and configure it from Receiver State;
\* fail names the first call the hardware refuses ("none": all accepted)
ConfigureDevice(d, s, fail) ==
    LET d1 == IF fail \in {"open", "freq"} THEN d
              ELSE [d EXCEPT !.freq = s.frequency]
        d2 == IF fail \in {"open", "freq", "rate"} THEN d1
              ELSE [d1 EXCEPT !.rate = s.sample_rate]
    IN  IF fail # "none" THEN d2
        ELSE IF s.tuner_gain = AUTO_GAIN
        THEN [d2 EXCEPT !.agc = TRUE]
        ELSE [d2 EXCEPT !.agc = FALSE, !.gain = s.tuner_gain]

\* main.rs 119-127, sdr/thread.rs 12-204: start_sdr_thread. On success the
\* command thread (handle dropped) and the acquisition thread (handle returned)
\* are running.
MainStartSdr ==
    /\ main_pc = "start_sdr"
    /\ \E fail \in {"none", "open", "freq", "rate", "gain"} :
         /\ dev' = ConfigureDevice(dev, sdr, fail)
         /\ IF fail = "none"
            THEN /\ thread' = [thread EXCEPT !["cmd"] = "check", !["acq"] = "idle"]
                 /\ main_pc' = "start_dsp"
                 /\ UNCHANGED run_result
            ELSE /\ Return(IF fail = "open" THEN OpenError ELSE "err")
                 /\ UNCHANGED thread
    /\ UNCHANGED <<args, joined, shutdown, should_quit>>
    /\ UNCHANGED <<sdr, mode, recording, hw_call, command_q, sent, last_cmd, repeated>>
    /\ UNCHANGED pipeVars
    /\ UNCHANGED sinkVars

\* main.rs 129-137, dsp/thread.rs 13-23: start_dsp_thread (infallible)
MainStartDsp ==
    /\ main_pc = "start_dsp"
    /\ thread' = [thread EXCEPT !["dsp"] = "check"]
    /\ main_pc' = "audio"
    /\ UNCHANGED <<args, run_result, joined, shutdown, should_quit>>
    /\ UNCHANGED cmdVars
    /\ UNCHANGED pipeVars
    /\ UNCHANGED sinkVars

\* main.rs 139-148: AudioOutput::new(..)? then ui::init()?
MainInitOutputs ==
    /\ main_pc = "audio"
    /\ \E ok \in BOOLEAN :
         IF ok
         THEN /\ main_pc' = "ui_loop"
              /\ UNCHANGED run_result
         ELSE Return("err")
    /\ UNCHANGED <<args, thread, joined, shutdown, should_quit>>
    /\ UNCHANGED cmdVars
    /\ UNCHANGED pipeVars
    /\ UNCHANGED sinkVars

\* ui/app.rs 29-34: send_command on the unbounded channel
SendCommand(q, c) == Append(q, c)

\* ui/app.rs 42-45, ui/input.rs 22-25: the quit key
UiQuitKey ==
    /\ main_pc = "ui_loop"
    /\ ~should_quit
    /\ should_quit' = TRUE
    /\ command_q' = SendCommand(command_q, QuitCommand)
    /\ UNCHANGED <<args, main_pc, run_result, thread, joined, shutdown>>
    /\ UNCHANGED <<sdr, mode, recording, dev, hw_call, sent, last_cmd, repeated>>
    /\ UNCHANGED pipeVars
    /\ UNCHANGED sinkVars

\* main.rs 151-157: ui::render(..)? or handle_input(..)? fails inside the loop
MainUiError ==
    /\ main_pc = "ui_loop"
    /\ ~should_quit
    /\ Return("err")
    /\ UNCHANGED <<args, thread, joined, shutdown, should_quit>>
    /\ UNCHANGED cmdVars
    /\ UNCHANGED pipeVars
    /\ UNCHANGED sinkVars

\* main.rs 158-165: leave the loop and restore the terminal (fallible)
MainLoopBreak ==
    /\ main_pc = "ui_loop"
    /\ should_quit
    /\ \E ok \in BOOLEAN :
         IF ok
         THEN /\ main_pc' = "signal"
              /\ UNCHANGED run_result
         ELSE Return("err")
    /\ UNCHANGED <<args, thread, joined, shutdown, should_quit>>
    /\ UNCHANGED cmdVars
    /\ UNCHANGED pipeVars
    /\ UNCHANGED sinkVars

\* main.rs 167-169: shutdown.store(true)
MainSignal ==
    /\ main_pc = "signal"
    /\ shutdown' = TRUE
    /\ main_pc' = "join_sdr"
    /\ UNCHANGED <<args, run_result, thread, joined, should_quit>>
    /\ UNCHANGED cmdVars
    /\ UNCHANGED pipeVars
    /\ UNCHANGED sinkVars

\* main.rs 172: sdr_thread.join() blocks until the acquisition thread ends
MainJoinSdr ==
    /\ main_pc = "join_sdr"
    /\ thread["acq"] = "stopped"
    /\ joined' = joined \cup {"acq"}
    /\ main_pc' = "join_dsp"
    /\ UNCHANGED <<args, run_result, thread, shutdown, should_quit>>
    /\ UNCHANGED cmdVars
    /\ UNCHANGED pipeVars
    /\ UNCHANGED sinkVars

\* main.rs 173-176: dsp_thread.join(), then Ok(())
MainJoinDsp ==
    /\ main_pc = "join_dsp"
    /\ thread["dsp"] = "stopped"
    /\ joined' = joined \cup {"dsp"}
    /\ Return("ok")
    /\ UNCHANGED <<args, thread, shutdown, should_quit>>
    /\ UNCHANGED cmdVars
    /\ UNCHANGED pipeVars
    /\ UNCHANGED sinkVars

\* main.rs 70-76: main returns, or std::process::exit(1): the process is gone
MainExit ==
    /\ main_pc = "returned"
    /\ main_pc' = "exited"
    /\ UNCHANGED <<args, run_result, thread, joined, shutdown, should_quit>>
    /\ UNCHANGED cmdVars
    /\ UNCHANGED pipeVars
    /\ UNCHANGED sinkVars

\* ------------------------------------------------------------ command source

\* the UI collaborator, or any holder of command_tx, sends a Command
CommandSource(c) ==
    /\ main_pc = "ui_loop"
    /\ ~should_quit
    /\ sent < MaxCommands
    /\ command_q' = SendCommand(command_q, c)
    /\ sent' = sent + 1
    /\ UNCHANGED lifeVars
    /\ UNCHANGED <<sdr, mode, recording, dev, hw_call, last_cmd, repeated>>
    /\ UNCHANGED pipeVars
    /\ UNCHANGED sinkVars

\* ui/input.rs 90-115: handle_mode_keys, up = next mode, otherwise previous mode
ModeKeyTarget(current, up) ==
    IF up THEN (current + 1) % NumModes
    ELSE IF current = 0 THEN NumModes - 1 ELSE current - 1

UiModeKey ==
    \E up \in BOOLEAN : CommandSource(Cmd("SetMode", ModeKeyTarget(mode, up)))

UiSendCommand ==
    \E c \in CommandInputs : CommandSource(c)

\* ui/input.rs 190-204: toggle_recording, on 'r' or on Enter in the Record
\* control; the path is a file name built from the wall clock
UiRecordKey ==
    \E path \in RecordingPaths :
        CommandSource(IF recording.is_recording
                      THEN Cmd("StopRecording", 0)
                      ELSE Cmd("StartRecording", path))

\* ------------------------------------------------------------ command thread

\* sdr/thread.rs 69-160: what handling command c does to Receiver State s and to
\* the device d when the hardware answers ok to the configuration call it makes.
\* call is that call ("none" when the command makes no call).
AfterFrequency(s, d, f, ok) ==
    [sdr |-> IF ok THEN [s EXCEPT !.frequency = f] ELSE s,
     dev |-> IF ok THEN [d EXCEPT !.freq = f] ELSE d,
     call |-> Call("set_center_freq", f, ok)]

\* mutant: Receiver State is written whether or not the hardware accepted
HandleSetSampleRateUnchecked(s, d, rate, ok) ==
    [sdr |-> [s EXCEPT !.sample_rate = rate],
     dev |-> IF ok THEN [d EXCEPT !.rate = rate] ELSE d,
     call |-> Call("set_sample_rate", rate, ok)]

\* sdr/thread.rs 112-119
HandleSetSampleRate(s, d, rate, ok) ==
    [sdr |-> IF ok THEN [s EXCEPT !.sample_rate = rate] ELSE s,
     dev |-> IF ok THEN [d EXCEPT !.rate = rate] ELSE d,
     call |-> Call("set_sample_rate", rate, ok)]

\* mutant: the key toggles automatic gain instead of setting it
HandleSetAutoGainToggle(s, d, auto, ok) ==
    IF ~s.auto_gain
    THEN [sdr |-> IF ok THEN [s EXCEPT !.tuner_gain = AUTO_GAIN, !.auto_gain = TRUE]
                  ELSE s,
          dev |-> IF ok THEN [d EXCEPT !.agc = TRUE] ELSE d,
          call |-> Call("enable_agc", 0, ok)]
    ELSE [sdr |-> IF ok THEN [s EXCEPT !.auto_gain = FALSE] ELSE s,
          dev |-> IF ok THEN [d EXCEPT !.agc = FALSE] ELSE d,
          call |-> Call("disable_agc", 0, ok)]

\* sdr/thread.rs 129-146
HandleSetAutoGain(s, d, auto, ok) ==
    IF auto
    THEN [sdr |-> IF ok THEN [s EXCEPT !.tuner_gain = AUTO_GAIN, !.auto_gain = TRUE]
                  ELSE s,
          dev |-> IF ok THEN [d EXCEPT !.agc = TRUE] ELSE d,
          call |-> Call("enable_agc", 0, ok)]
    ELSE [sdr |-> IF ok THEN [s EXCEPT !.auto_gain = FALSE] ELSE s,
          dev |-> IF ok THEN [d EXCEPT !.agc = FALSE] ELSE d,
          call |-> Call("disable_agc", 0, ok)]

\* mutant: the requested frequency goes to the hardware unclamped
SetFrequencyTargetRaw(freq) == freq

\* sdr/thread.rs 74: the frequency SetFrequency(freq) asks the hardware for
SetFrequencyTarget(freq) == Clamp(freq, MIN_FREQUENCY, MAX_FREQUENCY)

\* sdr/thread.rs 85-87, 100-102: the frequency an adjust command asks for
IncreaseTarget(cur, delta) ==
    Clamp(SaturatingAdd(cur, CastI32ToU32(delta)), MIN_FREQUENCY, MAX_FREQUENCY)

DecreaseTarget(cur, delta) ==
    Clamp(SaturatingSub(cur, CastI32ToU32(delta)), MIN_FREQUENCY, MAX_FREQUENCY)

HandleCommand(s, d, c, ok) ==
    CASE c.op = "SetFrequency" ->
           AfterFrequency(s, d, SetFrequencyTarget(c.arg), ok)
      [] c.op = "IncreaseFrequency" ->
           AfterFrequency(s, d, IncreaseTarget(s.frequency, c.arg), ok)
      [] c.op = "DecreaseFrequency" ->
           AfterFrequency(s, d, DecreaseTarget(s.frequency, c.arg), ok)
      [] c.op = "SetSampleRate" ->
           HandleSetSampleRate(s, d, c.arg, ok)
      [] c.op = "SetTunerGain" ->
           [sdr |-> IF ok THEN [s EXCEPT !.tuner_gain = c.arg, !.auto_gain = FALSE]
                    ELSE s,
            dev |-> IF ok THEN [d EXCEPT !.gain = c.arg] ELSE d,
            call |-> Call("set_tuner_gain", c.arg, ok)]
      [] c.op = "SetAutoGain" ->
           HandleSetAutoGain(s, d, c.arg = 1, ok)
      [] c.op = "SetPpmError" ->
           [sdr |-> IF ok THEN [s EXCEPT !.ppm_error = c.arg] ELSE s,
            dev |-> IF ok THEN [d EXCEPT !.ppm = c.arg] ELSE d,
            call |-> Call("set_ppm", c.arg, ok)]
      [] OTHER ->
           [sdr |-> s, dev |-> d, call |-> NoCall]

\* sdr/thread.rs 157: only Quit leaves the loop from inside the match
BreaksLoop(c) == c.op = "Quit"

\* sdr/thread.rs 159: the catch-all arm leaves decoder.mode alone
ModeAfter(m, c) == m

\* sdr/thread.rs 159: the catch-all arm takes StartRecording and StopRecording
\* too; nothing in the program calls RecordingState::start or ::stop
RecordingAfter(r, c) == r

\* sdr/thread.rs 61-66: top of the loop
CmdCheck ==
    /\ ProcessAlive
    /\ thread["cmd"] = "check"
    /\ thread' = [thread EXCEPT !["cmd"] = IF shutdown THEN "stopped" ELSE "recv"]
    /\ UNCHANGED <<args, main_pc, run_result, joined, shutdown, should_quit>>
    /\ UNCHANGED cmdVars
    /\ UNCHANGED pipeVars
    /\ UNCHANGED sinkVars

\* sdr/thread.rs 69-161: recv_timeout returned Ok(command)
CmdRecv ==
    /\ ProcessAlive
    /\ thread["cmd"] = "recv"
    /\ command_q # <<>>
    /\ \E ok \in BOOLEAN :
         LET c == Head(command_q)
             r == HandleCommand(sdr, dev, c, ok)
         IN  /\ command_q' = Tail(command_q)
             /\ last_cmd' = c
             /\ repeated' = (c = last_cmd /\ hw_call.ok)
             /\ sdr' = r.sdr
             /\ dev' = r.dev
             /\ hw_call' = r.call
             /\ mode' = ModeAfter(mode, c)
             /\ recording' = RecordingAfter(recording, c)
             /\ thread' = [thread EXCEPT
                    !["cmd"] = IF BreaksLoop(c) THEN "stopped" ELSE "check"]
    /\ UNCHANGED <<args, main_pc, run_result, joined, shutdown, should_quit>>
    /\ UNCHANGED sent
    /\ UNCHANGED pipeVars
    /\ UNCHANGED sinkVars

\* sdr/thread.rs 162-168: Timeout (loop again) or Disconnected (command_tx, owned
\* by run, has been dropped)
CmdNoCommand ==
    /\ ProcessAlive
    /\ thread["cmd"] = "recv"
    /\ command_q = <<>>
    /\ thread' = [thread EXCEPT
           !["cmd"] = IF main_pc = "returned" THEN "stopped" ELSE "check"]
    /\ UNCHANGED <<args, main_pc, run_result, joined, shutdown, should_quit>>
    /\ UNCHANGED cmdVars
    /\ UNCHANGED pipeVars
    /\ UNCHANGED sinkVars

\* ------------------------------------------------------------ acquisition thread

\* mutant: the channel takes the batch whatever its length
TrySendUnbounded(ch, b, rx_alive) ==
    IF rx_alive THEN Append(ch, b) ELSE ch

\* mutant: the batch is queued ahead of the older ones
TrySendFront(ch, b, rx_alive) ==
    IF rx_alive /\ Len(ch) < SAMPLES_CHANNEL_CAP THEN <<b>> \o ch ELSE ch

\* crossbeam try_send on the bounded IQ channel: Err(Full) at capacity,
\* Err(Disconnected) once the receiver is gone; the batch is then dropped
TrySend(ch, b, rx_alive) ==
    IF rx_alive /\ Len(ch) < SAMPLES_CHANNEL_CAP THEN Append(ch, b) ELSE ch

\* samples_rx is owned by run until the DSP thread takes it, and dropped with it
SamplesRxAlive == thread["dsp"] # "stopped"
\* samples_tx is owned by the acquisition closure
SamplesTxAlive == thread["acq"] # "stopped"

\* mutant: the callback does not read the flag
AcqCallbackCheckNoFlag ==
    /\ ProcessAlive
    /\ thread["acq"] = "idle"
    /\ produced < MaxBatches
    /\ produced' = produced + 1
    /\ thread' = [thread EXCEPT !["acq"] = "send"]
    /\ UNCHANGED acq_last
    /\ UNCHANGED <<args, main_pc, run_result, joined, shutdown, should_quit>>
    /\ UNCHANGED cmdVars
    /\ UNCHANGED <<samples_ch, received, dsp_demod>>
    /\ UNCHANGED sinkVars

\* sdr/thread.rs 181-186: the device calls back with one raw block; the callback
\* reads the shutdown flag and, if clear, converts the block to one IQ batch
AcqCallbackCheck ==
    /\ ProcessAlive
    /\ thread["acq"] = "idle"
    /\ IF shutdown
       THEN /\ acq_last' = "skipped"
            /\ UNCHANGED <<thread, produced>>
       ELSE /\ produced < MaxBatches
            /\ produced' = produced + 1
            /\ thread' = [thread EXCEPT !["acq"] = "send"]
            /\ UNCHANGED acq_last
    /\ UNCHANGED <<args, main_pc, run_result, joined, shutdown, should_quit>>
    /\ UNCHANGED cmdVars
    /\ UNCHANGED <<samples_ch, received, dsp_demod>>
    /\ UNCHANGED sinkVars

\* sdr/thread.rs 188-193: try_send the batch, drop it on error, return to the device
AcqCallbackSend ==
    /\ ProcessAlive
    /\ thread["acq"] = "send"
    /\ samples_ch' = TrySend(samples_ch, produced, SamplesRxAlive)
    /\ acq_last' = IF samples_ch' = samples_ch THEN "dropped" ELSE "sent"
    /\ thread' = [thread EXCEPT !["acq"] = "idle"]
    /\ UNCHANGED <<args, main_pc, run_result, joined, shutdown, should_quit>>
    /\ UNCHANGED cmdVars
    /\ UNCHANGED <<produced, received, dsp_demod>>
    /\ UNCHANGED sinkVars

\* sdr/thread.rs 194-201: read_async returns only when the device fails (nothing
\* in the program cancels the asynchronous read); the thread then ends
AcqReadAsyncReturns ==
    /\ ProcessAlive
    /\ thread["acq"] = "idle"
    /\ thread' = [thread EXCEPT !["acq"] = "stopped"]
    /\ UNCHANGED <<args, main_pc, run_result, joined, shutdown, should_quit>>
    /\ UNCHANGED cmdVars
    /\ UNCHANGED pipeVars
    /\ UNCHANGED sinkVars

\* ------------------------------------------------------------ DSP thread

\* dsp/thread.rs 49-71: the demodulator run for a mode
Demodulator(m) ==
    CASE m = ModeFmNarrow -> "fm_narrow"
      [] m = ModeFmWide -> "fm_wide"
      [] m = ModeAm -> "am"
      [] m = ModeUsb -> "ssb_upper"
      [] m = ModeLsb -> "ssb_lower"
      [] m \in {ModeAprs, ModeAdsb} -> "fm_narrow"
      [] OTHER -> "raw_none"

\* dsp/thread.rs 29-34: top of the loop
DspCheck ==
    /\ ProcessAlive
    /\ thread["dsp"] = "check"
    /\ thread' = [thread EXCEPT !["dsp"] = IF shutdown THEN "stopped" ELSE "recv"]
    /\ UNCHANGED <<args, main_pc, run_result, joined, shutdown, should_quit>>
    /\ UNCHANGED cmdVars
    /\ UNCHANGED pipeVars
    /\ UNCHANGED sinkVars

\* mutant: the channel takes the batch whatever its length
TrySendStreamUnbounded(ch, batch, rx_alive) ==
    IF rx_alive THEN Append(ch, batch) ELSE ch

\* crossbeam try_send on the bounded channel to the streaming thread
TrySendStream(ch, batch, rx_alive) ==
    IF rx_alive /\ Len(ch) < STREAM_CHANNEL_CAP THEN Append(ch, batch) ELSE ch

\* an audio batch on that channel: its samples and its number among the batches
\* offered to the channel
AudioBatch(n, samples) == [n |-> n, samples |-> samples]

\* stream_tx is Some when start_streaming_server has run (main.rs 112-117)
StreamTxSome == thread["stream"] # "unspawned"
\* rx is owned by the closure of the streaming thread
StreamRxAlive == thread["stream"] # "stopped"

\* dsp/thread.rs 37-74: recv_timeout returned Ok(samples): the oldest batch of the
\* channel is taken, its spectrum row is added to Receiver State and it is
\* demodulated in the mode read from Receiver State
DspRecv ==
    /\ ProcessAlive
    /\ thread["dsp"] = "recv"
    /\ samples_ch # <<>>
    /\ LET b == Head(samples_ch)
           audio == Demodulate(mode, SamplesU8ToComplex(RawBlock(b)))
           next == IF audio.some /\ audio.val # <<>> THEN "push"
                   ELSE IF audio.some /\ StreamTxSome THEN "stream"
                   ELSE "check"
       IN  /\ received' = Append(received, b)
           /\ samples_ch' = Tail(samples_ch)
           /\ spectrum' = AddFftData(spectrum, rows_added + 1)
           /\ rows_added' = rows_added + 1
           /\ dsp_demod' = Demodulator(mode)
           /\ dsp_audio' = IF audio.some THEN audio.val ELSE <<>>
           /\ dsp_i' = IF next = "push" THEN 1 ELSE 0
           /\ thread' = [thread EXCEPT !["dsp"] = next]
    /\ UNCHANGED <<args, main_pc, run_result, joined, shutdown, should_quit>>
    /\ UNCHANGED cmdVars
    /\ UNCHANGED <<produced, acq_last>>
    /\ UNCHANGED <<messages, msgs_added>>
    /\ UNCHANGED <<ring, offered, ring_last, popped, audio_out, callbacks>>
    /\ UNCHANGED streamVars
    /\ UNCHANGED lockVars
    /\ UNCHANGED pureVars

\* mutant: the flag is read before each sample, and the thread ends there
DspPushSampleChecked ==
    /\ ProcessAlive
    /\ thread["dsp"] = "push"
    /\ LET sample == Sample(offered + 1, ClampSample(dsp_audio[dsp_i]))
           last == dsp_i = Len(dsp_audio)
       IN  /\ ring' = IF shutdown THEN ring ELSE TryPush(ring, sample)
           /\ ring_last' = IF ring' = ring THEN "dropped" ELSE "pushed"
           /\ offered' = IF shutdown THEN offered ELSE offered + 1
           /\ dsp_i' = IF last THEN 0 ELSE dsp_i + 1
           /\ dsp_audio' = IF last /\ ~StreamTxSome THEN <<>> ELSE dsp_audio
           /\ thread' = [thread EXCEPT !["dsp"] =
                  IF shutdown THEN "stopped"
                  ELSE IF ~last THEN "push" ELSE IF StreamTxSome THEN "stream"
                  ELSE "check"]
    /\ UNCHANGED <<args, main_pc, run_result, joined, shutdown, should_quit>>
    /\ UNCHANGED cmdVars
    /\ UNCHANGED pipeVars
    /\ UNCHANGED displayVars
    /\ UNCHANGED <<popped, audio_out, callbacks>>
    /\ UNCHANGED streamVars
    /\ UNCHANGED lockVars
    /\ UNCHANGED pureVars

\* dsp/thread.rs 76-78, 235-243: send_audio_samples, one sample: clamp it and
\* try_push it, dropping it when the ring is full
DspPushSample ==
    /\ ProcessAlive
    /\ thread["dsp"] = "push"
    /\ LET sample == Sample(offered + 1, ClampSample(dsp_audio[dsp_i]))
           last == dsp_i = Len(dsp_audio)
       IN  /\ ring' = TryPush(ring, sample)
           /\ ring_last' = IF ring' = ring THEN "dropped" ELSE "pushed"
           /\ offered' = offered + 1
           /\ dsp_i' = IF last THEN 0 ELSE dsp_i + 1
           /\ dsp_audio' = IF last /\ ~StreamTxSome THEN <<>> ELSE dsp_audio
           /\ thread' = [thread EXCEPT !["dsp"] =
                  IF ~last THEN "push" ELSE IF StreamTxSome THEN "stream"
                  ELSE "check"]
    /\ UNCHANGED <<args, main_pc, run_result, joined, shutdown, should_quit>>
    /\ UNCHANGED cmdVars
    /\ UNCHANGED pipeVars
    /\ UNCHANGED displayVars
    /\ UNCHANGED <<popped, audio_out, callbacks>>
    /\ UNCHANGED streamVars
    /\ UNCHANGED lockVars
    /\ UNCHANGED pureVars

\* dsp/thread.rs 81-83: try_send a clone of the whole audio batch to the
\* streaming thread, dropping it on error
DspStreamSend ==
    /\ ProcessAlive
    /\ thread["dsp"] = "stream"
    /\ stream_ch' = TrySendStream(stream_ch, AudioBatch(stream_sent + 1, dsp_audio),
                                  StreamRxAlive)
    /\ stream_last' = IF stream_ch' = stream_ch THEN "dropped" ELSE "sent"
    /\ stream_sent' = stream_sent + 1
    /\ dsp_audio' = <<>>
    /\ thread' = [thread EXCEPT !["dsp"] = "check"]
    /\ UNCHANGED <<args, main_pc, run_result, joined, shutdown, should_quit>>
    /\ UNCHANGED cmdVars
    /\ UNCHANGED pipeVars
    /\ UNCHANGED displayVars
    /\ UNCHANGED <<dsp_i, ring, offered, ring_last, popped, audio_out, callbacks>>
    /\ UNCHANGED <<clients, accepted, failed, forwarded, written, joined_at,
                   stream_pcm, stream_i>>
    /\ UNCHANGED lockVars
    /\ UNCHANGED pureVars

\* dsp/thread.rs 86-93: Timeout (loop again) or Disconnected (the acquisition
\* thread has ended and the channel is drained)
DspNoSamples ==
    /\ ProcessAlive
    /\ thread["dsp"] = "recv"
    /\ samples_ch = <<>>
    /\ thread' = [thread EXCEPT
           !["dsp"] = IF SamplesTxAlive THEN "check" ELSE "stopped"]
    /\ UNCHANGED <<args, main_pc, run_result, joined, shutdown, should_quit>>
    /\ UNCHANGED cmdVars
    /\ UNCHANGED pipeVars
    /\ UNCHANGED sinkVars

\* ------------------------------------------------------------ streaming thread

\* stream_tx is owned by run until the DSP thread takes it, and dropped with it
StreamTxAlive ==
    \/ Running("dsp")
    \/ thread["dsp"] = "unspawned" /\ main_pc \notin {"returned", "exited"}

\* streaming.rs 65-73: f32 samples to 16-bit PCM, (clamped * 32767.0) as i16
ToPcm(samples) ==
    [i \in 1..Len(samples) |-> Div(ClampSample(samples[i]) * 32767, ONE)]

\* mutant: the first listener is removed, whichever write failed
RemoveFirst(q, i) == Tail(q)

\* Vec::remove(i - 1), as retain_mut does for an element it rejects
RemoveAt(q, i) == SubSeq(q, 1, i - 1) \o SubSeq(q, i + 1, Len(q))

\* streaming.rs 35-59: top of the loop: the shutdown flag, then a non-blocking
\* accept (conn: a listener is waiting to connect)
StreamCheck ==
    /\ ProcessAlive
    /\ thread["stream"] = "check"
    /\ thread' = [thread EXCEPT !["stream"] = IF shutdown THEN "stopped" ELSE "recv"]
    /\ \E conn \in BOOLEAN :
         IF ~shutdown /\ conn /\ accepted < MaxListeners
         THEN /\ clients' = Append(clients, accepted + 1)
              /\ accepted' = accepted + 1
              /\ joined_at' = [joined_at EXCEPT ![accepted + 1] = Len(forwarded)]
         ELSE UNCHANGED <<clients, accepted, joined_at>>
    /\ UNCHANGED <<args, main_pc, run_result, joined, shutdown, should_quit>>
    /\ UNCHANGED cmdVars
    /\ UNCHANGED pipeVars
    /\ UNCHANGED displayVars
    /\ UNCHANGED audioVars
    /\ UNCHANGED <<stream_ch, stream_sent, stream_last, failed, forwarded, written,
                   stream_pcm, stream_i>>
    /\ UNCHANGED lockVars
    /\ UNCHANGED pureVars

\* streaming.rs 62-73: recv_timeout returned Ok(samples): the oldest audio batch
\* is taken and converted to PCM
StreamRecv ==
    /\ ProcessAlive
    /\ thread["stream"] = "recv"
    /\ stream_ch # <<>>
    /\ Len(forwarded) < MaxForwarded
    /\ stream_ch' = Tail(stream_ch)
    /\ forwarded' = Append(forwarded, Head(stream_ch).n)
    /\ IF clients = <<>>
       THEN /\ thread' = [thread EXCEPT !["stream"] = "check"]
            /\ UNCHANGED <<stream_pcm, stream_i>>
       ELSE /\ thread' = [thread EXCEPT !["stream"] = "write"]
            /\ stream_pcm' = ToPcm(Head(stream_ch).samples)
            /\ stream_i' = 1
    /\ UNCHANGED <<args, main_pc, run_result, joined, shutdown, should_quit>>
    /\ UNCHANGED cmdVars
    /\ UNCHANGED pipeVars
    /\ UNCHANGED displayVars
    /\ UNCHANGED audioVars
    /\ UNCHANGED <<stream_sent, stream_last, clients, accepted, failed, written,
                   joined_at>>
    /\ UNCHANGED lockVars
    /\ UNCHANGED pureVars

\* streaming.rs 76-84: retain_mut, one listener: write_all blocks until the
\* listener has taken the whole batch (ok) or the connection fails; a listener
\* whose write fails is removed
StreamWrite ==
    /\ ProcessAlive
    /\ thread["stream"] = "write"
    /\ \E ok \in BOOLEAN :
         LET c == clients[stream_i]
             kept == IF ok THEN clients ELSE RemoveAt(clients, stream_i)
             next == IF ok THEN stream_i + 1 ELSE stream_i
         IN  /\ clients' = kept
             /\ written' = IF ok
                            THEN [written EXCEPT
                                     ![c] = Append(@, forwarded[Len(forwarded)])]
                            ELSE written
             /\ failed' = IF ok THEN failed ELSE failed \cup {c}
             /\ IF next > Len(kept)
                THEN /\ thread' = [thread EXCEPT !["stream"] = "check"]
                     /\ stream_pcm' = <<>>
                     /\ stream_i' = 0
                ELSE /\ stream_i' = next
                     /\ UNCHANGED <<thread, stream_pcm>>
    /\ UNCHANGED <<args, main_pc, run_result, joined, shutdown, should_quit>>
    /\ UNCHANGED cmdVars
    /\ UNCHANGED pipeVars
    /\ UNCHANGED displayVars
    /\ UNCHANGED audioVars
    /\ UNCHANGED <<stream_ch, stream_sent, stream_last, accepted, forwarded,
                   joined_at>>
    /\ UNCHANGED lockVars
    /\ UNCHANGED pureVars

\* streaming.rs 86-92: Timeout (loop again) or Disconnected (stream_tx dropped
\* and the channel drained)
StreamNoAudio ==
    /\ ProcessAlive
    /\ thread["stream"] = "recv"
    /\ stream_ch = <<>>
    /\ thread' = [thread EXCEPT
           !["stream"] = IF StreamTxAlive THEN "check" ELSE "stopped"]
    /\ UNCHANGED <<args, main_pc, run_result, joined, shutdown, should_quit>>
    /\ UNCHANGED cmdVars
    /\ UNCHANGED pipeVars
    /\ UNCHANGED sinkVars

\* ------------------------------------------------------------ audio output callback

\* the AudioOutput made at main.rs 141 lives until run returns
AudioOutputAlive == main_pc \in {"ui_loop", "signal", "join_sdr", "join_dsp"}

\* mutant: a slot without a ready sample is written with full scale
OutputSlotFullScale(r) == IF r.some THEN r.sample ELSE Sample(0, ONE)

\* audio/output.rs 44: consumer.try_pop().unwrap_or(0.0); the slot is written
\* with the sample it came from (NoSample: silence, 0.0)
OutputSlot(r) == IF r.some THEN r.sample ELSE NoSample

\* audio/output.rs 41-46: the output callback, one slot of the buffer the audio
\* device handed to it; a callback that finds the last buffer complete is a new
\* callback with a new buffer
AudioCallbackSlot ==
    /\ AudioOutputAlive
    /\ callbacks < MaxCallbacks
    /\ LET data == IF Len(audio_out) = OutputSlots THEN <<>> ELSE audio_out
           r == TryPop(ring)
       IN  /\ ring' = r.ring
           /\ audio_out' = Append(data, OutputSlot(r))
           /\ popped' = IF r.some THEN Append(popped, r.sample.n) ELSE popped
           /\ callbacks' = IF Len(data) + 1 = OutputSlots THEN callbacks + 1
                            ELSE callbacks
    /\ UNCHANGED lifeVars
    /\ UNCHANGED cmdVars
    /\ UNCHANGED pipeVars
    /\ UNCHANGED displayVars
    /\ UNCHANGED <<dsp_audio, dsp_i, offered, ring_last>>
    /\ UNCHANGED streamVars
    /\ UNCHANGED lockVars
    /\ UNCHANGED pureVars

\* ------------------------------------------------------------ specifications

MainStartup ==
    \/ MainApplyArgs
    \/ MainStartStreaming
    \/ MainStartSdr
    \/ MainStartDsp
    \/ MainInitOutputs

MainShutdown ==
    \/ UiQuitKey
    \/ MainUiError
    \/ MainLoopBreak
    \/ MainSignal
    \/ MainJoinSdr
    \/ MainJoinDsp
    \/ MainExit

\* the life cycle of the process and its threads, from the entry of run to exit
Next ==
    \/ MainStartup
    \/ MainShutdown
    \/ CmdCheck
    \/ CmdRecv
    \/ CmdNoCommand
    \/ DspCheck
    \/ DspNoSamples
    \/ StreamCheck
    \/ StreamNoAudio
    \/ AcqReadAsyncReturns

Spec == Init /\ [][Next]_vars

\* The scheduler runs every live thread; nothing makes the device end read_async.
FairSpec ==
    /\ Spec
    /\ WF_vars(MainStartup \/ MainShutdown)
    /\ WF_vars(CmdCheck \/ CmdRecv \/ CmdNoCommand)
    /\ WF_vars(DspCheck \/ DspNoSamples)
    /\ WF_vars(StreamCheck \/ StreamNoAudio)

\* the process in its UI loop after a startup without arguments: device
\* configured from the defaults, acquisition, command and DSP threads running
InitRunning ==
    /\ InitCommon
    /\ InitBatchIdle
    /\ InitResampleIdle
    /\ args = [frequency |-> NoArg, gain |-> NoArg, audio_port |-> FALSE]
    /\ main_pc = "ui_loop"
    /\ thread = [t \in Threads |->
                   CASE t = "acq" -> "idle"
                     [] t \in {"cmd", "dsp"} -> "check"
                     [] OTHER -> "unspawned"]
    /\ mode = ModeFmNarrow
    /\ sdr = DefaultSdr
    /\ dev = ConfigureDevice(UnconfiguredDev, DefaultSdr, "none")

InitPipe ==
    /\ InitRunning
    /\ samples_ch = <<>>
    /\ produced = 0
    /\ acq_last = "none"
    /\ ring = <<>>
    /\ offered = 0
    /\ stream_ch = <<>>

\* the data path: device callbacks against the DSP loop, up to shutdown
NextPipe ==
    \/ AcqCallbackCheck
    \/ AcqCallbackSend
    \/ AcqReadAsyncReturns
    \/ DspCheck
    \/ DspRecv
    \/ DspPushSample
    \/ DspNoSamples
    \/ UiQuitKey
    \/ MainLoopBreak
    \/ MainSignal

SpecPipe == InitPipe /\ [][NextPipe]_vars

\* as InitRunning, with the first batches of the device queued for the DSP thread
InitCmd ==
    /\ InitRunning
    /\ samples_ch = [i \in 1..PendingBatches |-> i]
    /\ produced = PendingBatches
    /\ acq_last = "sent"
    /\ ring = <<>>
    /\ offered = 0
    /\ stream_ch = <<>>

\* the control path: commands sent, received and applied while the DSP thread
\* works through its queue, up to the quit key
NextCmd ==
    \/ UiSendCommand
    \/ UiModeKey
    \/ UiRecordKey
    \/ UiQuitKey
    \/ CmdCheck
    \/ CmdRecv
    \/ CmdNoCommand
    \/ DspCheck
    \/ DspRecv
    \/ DspPushSample
    \/ DspNoSamples

SpecCmd == InitCmd /\ [][NextCmd]_vars

\* the ring as the DSP thread leaves it when the audio device has not pulled for
\* a while: backlog samples queued (0: the device has kept up)
RingAfter(backlog) ==
    IF backlog = 0 THEN <<>> ELSE <<[n |-> 1, count |-> backlog, v |-> 0]>>

\* as InitRunning, with IQ batches queued for the DSP thread and the audio ring
\* empty or RingFree samples short of full; batches and histories are counted
\* from this point
InitAudio ==
    /\ InitRunning
    /\ samples_ch = [i \in 1..AudioBatches |-> i]
    /\ produced = AudioBatches
    /\ acq_last = "sent"
    /\ \E backlog \in {0, AUDIO_BUFFER_SIZE - RingFree} :
         /\ ring = RingAfter(backlog)
         /\ offered = backlog
    /\ stream_ch = <<>>

\* the local audio path: the DSP thread pushing into the ring against the output
\* callback of the audio device
NextAudio ==
    \/ DspCheck
    \/ DspRecv
    \/ DspPushSample
    \/ DspNoSamples
    \/ AudioCallbackSlot

SpecAudio == InitAudio /\ [][NextAudio]_vars

\* the process in its UI loop after a startup with --audio-port: as InitRunning
\* with the streaming thread running, IQ batches queued for the DSP thread, and
\* the channel to the streaming thread empty or holding StreamBacklog batches.
\* decoder.mode is an input of the DSP thread: any DemodMode.
InitStream ==
    /\ InitCommon
    /\ InitBatchIdle
    /\ InitResampleIdle
    /\ args = [frequency |-> NoArg, gain |-> NoArg, audio_port |-> TRUE]
    /\ main_pc = "ui_loop"
    /\ thread = [t \in Threads |-> IF t = "acq" THEN "idle" ELSE "check"]
    /\ mode \in 0..(NumModes - 1)
    /\ sdr = DefaultSdr
    /\ dev = ConfigureDevice(UnconfiguredDev, DefaultSdr, "none")
    /\ samples_ch = [i \in 1..AudioBatches |-> i]
    /\ produced = AudioBatches
    /\ acq_last = "sent"
    /\ ring = <<>>
    /\ offered = 0
    /\ \E backlog \in {0, StreamBacklog} :
         stream_ch = [i \in 1..backlog |-> AudioBatch(i - backlog, <<0>>)]

\* the network audio path: the DSP thread handing audio batches to the streaming
\* thread, which forwards them to its listeners
NextStream ==
    \/ DspCheck
    \/ DspRecv
    \/ DspPushSample
    \/ DspStreamSend
    \/ DspNoSamples
    \/ StreamCheck
    \/ StreamRecv
    \/ StreamWrite
    \/ StreamNoAudio

SpecStream == InitStream /\ [][NextStream]_vars

\* the process in its UI loop with IQ batches queued for the DSP thread, in any
\* mode, started with or without --audio-port: audio_tx is always Some
\* (main.rs 134), stream_tx only when the streaming server was started
InitSinks ==
    /\ InitCommon
    /\ InitBatchIdle
    /\ InitResampleIdle
    /\ args \in {[frequency |-> NoArg, gain |-> NoArg, audio_port |-> p] :
                   p \in BOOLEAN}
    /\ main_pc = "ui_loop"
    /\ thread = [t \in Threads |->
                   CASE t = "acq" -> "idle"
                     [] t = "stream" ->
                          IF args.audio_port THEN "check" ELSE "unspawned"
                     [] OTHER -> "check"]
    /\ mode \in 0..(NumModes - 1)
    /\ sdr = DefaultSdr
    /\ dev = ConfigureDevice(UnconfiguredDev, DefaultSdr, "none")
    /\ samples_ch = [i \in 1..AudioBatches |-> i]
    /\ produced = AudioBatches
    /\ acq_last = "sent"
    /\ ring = <<>>
    /\ offered = 0
    /\ stream_ch = <<>>

\* the DSP loop on its own: one batch after the other, each to the spectrum
\* and to the sinks
NextSinks ==
    \/ DspCheck
    \/ DspRecv
    \/ DspPushSample
    \/ DspStreamSend
    \/ DspNoSamples

SpecSinks == InitSinks /\ [][NextSinks]_vars

\* the DSP thread adds the spectrum row of one more batch
SpectrumAddRow ==
    /\ Running("dsp")
    /\ rows_added < MAX_WATERFALL_HISTORY + ExtraRows
    /\ spectrum' = AddFftData(spectrum, rows_added + 1)
    /\ rows_added' = rows_added + 1
    /\ UNCHANGED lifeVars
    /\ UNCHANGED cmdVars
    /\ UNCHANGED pipeVars
    /\ UNCHANGED <<messages, msgs_added>>
    /\ UNCHANGED audioVars
    /\ UNCHANGED streamVars
    /\ UNCHANGED lockVars
    /\ UNCHANGED pureVars

\* a decoder adds one more message to the list
DecoderAddMessage ==
    /\ ProcessAlive
    /\ msgs_added < MAX_MESSAGES + ExtraMessages
    /\ messages' = AddMessage(messages, msgs_added + 1)
    /\ msgs_added' = msgs_added + 1
    /\ UNCHANGED lifeVars
    /\ UNCHANGED cmdVars
    /\ UNCHANGED pipeVars
    /\ UNCHANGED <<spectrum, rows_added>>
    /\ UNCHANGED audioVars
    /\ UNCHANGED streamVars
    /\ UNCHANGED lockVars
    /\ UNCHANGED pureVars

InitDisplay ==
    /\ InitRunning
    /\ samples_ch = <<>>
    /\ produced = 0
    /\ acq_last = "none"
    /\ ring = <<>>
    /\ offered = 0
    /\ stream_ch = <<>>

\* the bounded histories of Receiver State: rows added to the waterfall and
\* messages added to the list, beyond their capacities
NextDisplay ==
    \/ SpectrumAddRow
    \/ DecoderAddMessage

SpecDisplay == InitDisplay /\ [][NextDisplay]_vars

\* ------------------------------------------------------------ lock sites

\* The three sites where a thread takes the lock of Receiver State, each step
\* by step: the panes of the UI thread, the adjust handler of the command
\* thread, and the spectrum row and mode read of the DSP thread. lock_pc[t] is
\* the operation thread t is in.

LockStep(t, from, to, l) ==
    /\ lock_pc[t] = from
    /\ lock_pc' = [lock_pc EXCEPT ![t] = to]
    /\ lock' = l

\* ui/render.rs 118, 146: let state = app.state.read()
UiRenderLock ==
    /\ main_pc = "ui_loop"
    /\ CanRead(lock)
    /\ LockStep("main", "idle", "read_fields", LockRead(lock, "main"))
    /\ UNCHANGED <<lifeVars, cmdVars, pipeVars, displayVars, audioVars,
                   streamVars, pureVars, new_freq>>

\* ui/render.rs 119-126, 153: the fields of Receiver State are read through the
\* guard, which stays alive
UiRenderFields ==
    /\ LockStep("main", "read_fields", "render_widget", lock)
    /\ UNCHANGED <<lifeVars, cmdVars, pipeVars, displayVars, audioVars,
                   streamVars, pureVars, new_freq>>

\* ui/render.rs 128-142, 155-168: f.render_widget draws the pane, and the guard
\* is dropped when the function returns
UiRenderWidget ==
    /\ LockStep("main", "render_widget", "idle", DropGuard(lock, "main"))
    /\ UNCHANGED <<lifeVars, cmdVars, pipeVars, displayVars, audioVars,
                   streamVars, pureVars, new_freq>>

\* sdr/thread.rs 69, 82-84: the command thread has received an adjust command
\* and takes the write lock: let state_guard = cmd_state.write()
CmdAdjustLock ==
    /\ Running("cmd")
    /\ command_q # <<>>
    /\ Head(command_q).op \in {"IncreaseFrequency", "DecreaseFrequency"}
    /\ CanWrite(lock)
    /\ LockStep("cmd", "idle", "read_frequency", LockWrite(lock, "cmd"))
    /\ last_cmd' = Head(command_q)
    /\ command_q' = Tail(command_q)
    /\ UNCHANGED <<lifeVars, sdr, mode, recording, dev, hw_call, sent, repeated,
                   pipeVars, displayVars, audioVars, streamVars, pureVars, new_freq>>

\* mutant: the guard is not dropped before the device call
CmdAdjustComputeKeepsGuard ==
    /\ LockStep("cmd", "read_frequency", "set_center_freq", lock)
    /\ new_freq' = IF last_cmd.op = "IncreaseFrequency"
                   THEN IncreaseTarget(sdr.frequency, last_cmd.arg)
                   ELSE DecreaseTarget(sdr.frequency, last_cmd.arg)
    /\ UNCHANGED <<lifeVars, cmdVars, pipeVars, displayVars, audioVars, streamVars, pureVars>>

\* sdr/thread.rs 85-88, 100-103: new_freq is computed from the frequency read
\* through the guard, and the guard is dropped
CmdAdjustCompute ==
    /\ LockStep("cmd", "read_frequency", "set_center_freq", DropGuard(lock, "cmd"))
    /\ new_freq' = IF last_cmd.op = "IncreaseFrequency"
                   THEN IncreaseTarget(sdr.frequency, last_cmd.arg)
                   ELSE DecreaseTarget(sdr.frequency, last_cmd.arg)
    /\ UNCHANGED <<lifeVars, cmdVars, pipeVars, displayVars, audioVars, streamVars, pureVars>>

\* sdr/thread.rs 91-92, 106-107: ctl.set_center_freq(new_freq), without the lock
CmdAdjustDevice ==
    /\ \E ok \in BOOLEAN :
          /\ LockStep("cmd", "set_center_freq",
                      IF ok THEN "lock_frequency" ELSE "idle", lock)
          /\ dev' = IF ok THEN [dev EXCEPT !.freq = new_freq] ELSE dev
          /\ hw_call' = Call("set_center_freq", new_freq, ok)
    /\ UNCHANGED <<lifeVars, sdr, mode, recording, command_q, sent, last_cmd,
                   repeated, pipeVars, displayVars, audioVars, streamVars, pureVars,
                   new_freq>>

\* sdr/thread.rs 93, 108: cmd_state.write(), the guard of one statement
CmdAdjustWriteLock ==
    /\ CanWrite(lock)
    /\ LockStep("cmd", "lock_frequency", "write_frequency", LockWrite(lock, "cmd"))
    /\ UNCHANGED <<lifeVars, cmdVars, pipeVars, displayVars, audioVars,
                   streamVars, pureVars, new_freq>>

\* sdr/thread.rs 93, 108: .sdr.frequency = new_freq, and the guard is dropped
CmdAdjustWrite ==
    /\ LockStep("cmd", "write_frequency", "idle", DropGuard(lock, "cmd"))
    /\ sdr' = [sdr EXCEPT !.frequency = new_freq]
    /\ UNCHANGED <<lifeVars, mode, recording, dev, hw_call, command_q, sent,
                   last_cmd, repeated, pipeVars, displayVars, audioVars,
                   streamVars, pureVars, new_freq>>

\* dsp/thread.rs 37-40: a batch was received and fft_processor.process runs on it
DspComputeFft ==
    /\ Running("dsp")
    /\ rows_added < LockRows
    /\ LockStep("dsp", "idle", "compute_fft", lock)
    /\ UNCHANGED <<lifeVars, cmdVars, pipeVars, displayVars, audioVars,
                   streamVars, pureVars, new_freq>>

\* dsp/thread.rs 43: state.write(), the guard of one statement
DspSpectrumLock ==
    /\ CanWrite(lock)
    /\ LockStep("dsp", "compute_fft", "add_fft_data", LockWrite(lock, "dsp"))
    /\ UNCHANGED <<lifeVars, cmdVars, pipeVars, displayVars, audioVars,
                   streamVars, pureVars, new_freq>>

\* dsp/thread.rs 43: .spectrum.add_fft_data(fft_data), and the guard is dropped
DspAddFftData ==
    /\ LockStep("dsp", "add_fft_data", "lock_mode", DropGuard(lock, "dsp"))
    /\ spectrum' = AddFftData(spectrum, rows_added + 1)
    /\ rows_added' = rows_added + 1
    /\ UNCHANGED <<lifeVars, cmdVars, pipeVars, messages, msgs_added, audioVars,
                   streamVars, pureVars, new_freq>>

\* dsp/thread.rs 46: state.read(), the guard of one statement
DspModeLock ==
    /\ CanRead(lock)
    /\ LockStep("dsp", "lock_mode", "read_mode", LockRead(lock, "dsp"))
    /\ UNCHANGED <<lifeVars, cmdVars, pipeVars, displayVars, audioVars,
                   streamVars, pureVars, new_freq>>

\* dsp/thread.rs 46: let mode = ... .decoder.mode, and the guard is dropped
DspReadMode ==
    /\ LockStep("dsp", "read_mode", "demodulate", DropGuard(lock, "dsp"))
    /\ dsp_demod' = Demodulator(mode)
    /\ UNCHANGED <<lifeVars, cmdVars, samples_ch, produced, received, acq_last,
                   displayVars, audioVars, streamVars, pureVars, new_freq>>

\* dsp/thread.rs 49-71: the batch is demodulated in that mode, without the lock
DspDemodulate ==
    /\ LockStep("dsp", "demodulate", "idle", lock)
    /\ UNCHANGED <<lifeVars, cmdVars, pipeVars, displayVars, audioVars,
                   streamVars, pureVars, new_freq>>

\* as InitRunning, with adjust commands queued for the command thread
InitLock ==
    /\ InitRunning
    /\ samples_ch = <<>>
    /\ produced = 0
    /\ acq_last = "none"
    /\ ring = <<>>
    /\ offered = 0
    /\ stream_ch = <<>>

\* the UI thread sends an adjust command (ui/input.rs: the frequency keys)
UiAdjustKey ==
    /\ main_pc = "ui_loop"
    /\ lock_pc["main"] = "idle"
    /\ sent < MaxCommands
    /\ \E op \in {"IncreaseFrequency", "DecreaseFrequency"} :
       \E d \in DeltaInputs :
          command_q' = SendCommand(command_q, Cmd(op, d))
    /\ sent' = sent + 1
    /\ UNCHANGED <<lifeVars, sdr, mode, recording, dev, hw_call, last_cmd,
                   repeated, pipeVars, sinkVars>>

\* the three threads at their lock sites
NextLock ==
    \/ UiAdjustKey
    \/ UiRenderLock
    \/ UiRenderFields
    \/ UiRenderWidget
    \/ CmdAdjustLock
    \/ CmdAdjustCompute
    \/ CmdAdjustDevice
    \/ CmdAdjustWriteLock
    \/ CmdAdjustWrite
    \/ DspComputeFft
    \/ DspSpectrumLock
    \/ DspAddFftData
    \/ DspModeLock
    \/ DspReadMode
    \/ DspDemodulate

SpecLock == InitLock /\ [][NextLock]_vars

\* The scheduler runs every thread, so a step that needs no lock is taken
\* (weak fairness). A lock request is granted if the lock is free again and
\* again (strong fairness): parking_lot's RwLock is task-fair, a waiting writer
\* is not overtaken for ever by readers that arrive after it.
FairSpecLock ==
    /\ SpecLock
    /\ WF_vars(UiRenderFields) /\ WF_vars(UiRenderWidget)
    /\ WF_vars(CmdAdjustCompute) /\ WF_vars(CmdAdjustDevice)
    /\ WF_vars(CmdAdjustWrite)
    /\ WF_vars(DspAddFftData) /\ WF_vars(DspReadMode) /\ WF_vars(DspDemodulate)
    /\ SF_vars(CmdAdjustLock) /\ SF_vars(CmdAdjustWriteLock)
    /\ SF_vars(DspSpectrumLock) /\ SF_vars(DspModeLock)

\* ------------------------------------------------------------ batch processing

\* sdr/thread.rs 181-190: the device callback converts a raw block to an IQ
\* batch, which the DSP thread receives
BatchConvert ==
    /\ Running("dsp")
    /\ batch_pc = "convert"
    /\ batches < MaxDspBatches
    /\ \E block \in BatchBlocks :
          /\ raw' = block
          /\ iq' = SamplesU8ToComplex(block)
    /\ batch_pc' = "fft"
    /\ UNCHANGED <<lifeVars, cmdVars, pipeVars, displayVars, audioVars,
                   streamVars, lockVars, resampleVars, fmVars>>
    /\ UNCHANGED <<fft_size, input_buffer, fft_prev_in, fft_result, iq_all,
                   audio_last, audio_total, tau_us, batches>>

\* dsp/thread.rs 40, dsp/fft.rs 35-56: fft_processor.process(&samples)
BatchFft ==
    /\ batch_pc = "fft"
    /\ fft_prev_in' = input_buffer
    /\ input_buffer' = FillInputBuffer(input_buffer, iq, fft_size)
    /\ \E m \in OutputMagnitudes(input_buffer') :
          fft_result' = FftShiftAndMagnitude(fft_size, m)
    /\ batch_pc' = "demod"
    /\ UNCHANGED <<lifeVars, cmdVars, pipeVars, displayVars, audioVars,
                   streamVars, lockVars, resampleVars, fmVars>>
    /\ UNCHANGED <<fft_size, raw, iq, iq_all, audio_last, audio_total, tau_us,
                   batches>>

\* dsp/thread.rs 46-71: the batch is demodulated in the mode of Receiver State
BatchDemodulate ==
    /\ batch_pc = "demod"
    /\ LET a == Demodulate(mode, iq)
       IN  /\ audio_last' = a
           /\ audio_total' = IF a.some THEN audio_total \o a.val ELSE audio_total
    /\ tau_us' = TauUsed(mode, iq)
    /\ iq_all' = iq_all \o iq
    /\ batches' = batches + 1
    /\ batch_pc' = "convert"
    /\ UNCHANGED <<lifeVars, cmdVars, pipeVars, displayVars, audioVars,
                   streamVars, lockVars, resampleVars, fmVars>>
    /\ UNCHANGED <<fft_size, input_buffer, fft_prev_in, fft_result, raw, iq>>

\* the running threads of InitRunning, with nothing queued anywhere
InitThreadsRunning ==
    /\ args = [frequency |-> NoArg, gain |-> NoArg, audio_port |-> FALSE]
    /\ main_pc = "ui_loop"
    /\ thread = [t \in Threads |->
                   CASE t = "acq" -> "idle"
                     [] t \in {"cmd", "dsp"} -> "check"
                     [] OTHER -> "unspawned"]
    /\ sdr = DefaultSdr
    /\ dev = ConfigureDevice(UnconfiguredDev, DefaultSdr, "none")
    /\ samples_ch = <<>>
    /\ produced = 0
    /\ acq_last = "none"
    /\ ring = <<>>
    /\ offered = 0
    /\ stream_ch = <<>>

\* dsp/fft.rs 21-32: FftProcessor::new(size), and no batch in work.
\* decoder.mode is an input of the DSP thread: any DemodMode.
InitBatch ==
    /\ InitCommon
    /\ InitThreadsRunning
    /\ InitResampleIdle
    /\ mode \in 0..(NumModes - 1)
    /\ fft_size \in FftSizes
    /\ input_buffer = [i \in 1..fft_size |-> ComplexZero]
    /\ fft_prev_in = <<>>
    /\ fft_result = <<>>
    /\ raw = <<>>
    /\ iq = <<>>
    /\ iq_all = <<>>
    /\ audio_last = NoArg
    /\ audio_total = <<>>
    /\ tau_us = 0
    /\ batches = 0
    /\ batch_pc = "convert"

\* the processing functions applied to one batch after the other
NextBatch ==
    \/ BatchConvert
    \/ BatchFft
    \/ BatchDemodulate

SpecBatch == InitBatch /\ [][NextBatch]_vars

\* ------------------------------------------------------------ resampling

\* dsp/resampler.rs 30-59: resample on the next n samples of the input
ResamplerResample ==
    /\ ProcessAlive
    /\ rs_last # "hung"
    /\ rs_calls < MaxResampleCalls
    /\ \E n \in ResampleLengthsFor(rs_rates) :
          IF ResampleStalls(n, rs_phase, rs_rates)
          THEN /\ rs_last' = "hung"
               /\ UNCHANGED <<rs_out_all, rs_phase, rs_fed, rs_calls>>
          ELSE LET input == [k \in 1..n |-> RsValue(rs_fed + k)]
                   r == Resample(input, rs_phase, rs_rates)
               IN  /\ rs_out_all' = rs_out_all \o r.output
                   /\ rs_phase' = r.phase
                   /\ rs_fed' = rs_fed + n
                   /\ rs_calls' = rs_calls + 1
                   /\ rs_last' = "resample"
    /\ UNCHANGED <<lifeVars, cmdVars, pipeVars, displayVars, audioVars,
                   streamVars, lockVars, batchVars, rs_rates, fmVars>>

\* dsp/resampler.rs 62-64: reset; the histories start again with the phase
ResamplerReset ==
    /\ ProcessAlive
    /\ rs_last = "resample"
    /\ rs_phase' = 0
    /\ rs_fed' = 0
    /\ rs_out_all' = <<>>
    /\ rs_calls' = 0
    /\ rs_last' = "reset"
    /\ UNCHANGED <<lifeVars, cmdVars, pipeVars, displayVars, audioVars,
                   streamVars, lockVars, batchVars, rs_rates, fmVars>>

\* a Resampler just constructed, with any of the rate pairs
InitResample ==
    /\ InitCommon
    /\ InitThreadsRunning
    /\ InitBatchIdle
    /\ mode = ModeFmNarrow
    /\ \E rates \in RatePairs : ResamplerNew(rates)

NextResample ==
    \/ ResamplerResample
    \/ ResamplerReset

SpecResample == InitResample /\ [][NextResample]_vars

\* ------------------------------------------------------------ FM demodulator

\* dsp/demod/fm.rs 20-30: a holder of the type constructs an FmDemodulator
FmDemodulatorConstruct ==
    /\ ProcessAlive
    /\ fm_last = "none"
    /\ \E a \in FmNewArgs : fm' = FmDemodulatorNew(a.sample_rate, a.tau)
    /\ fm_last' = "new"
    /\ UNCHANGED <<lifeVars, cmdVars, pipeVars, displayVars, audioVars,
                   streamVars, lockVars, batchVars, resampleVars>>
    /\ UNCHANGED <<fm_fed, fm_out_all, fm_last_in, fm_last_out, fm_calls>>

\* dsp/demod/fm.rs 35-58: demodulate on the IQ samples of one raw block
FmDemodulatorDemodulate ==
    /\ ProcessAlive
    /\ fm_last # "none"
    /\ fm_calls < MaxFmCalls
    /\ \E block \in BatchBlocks :
          LET samples == SamplesU8ToComplex(block)
              r == FmDemodulate(fm, samples)
          IN  /\ fm' = r.d
              /\ fm_last_in' = samples
              /\ fm_last_out' = r.audio
              /\ fm_fed' = fm_fed \o samples
              /\ fm_out_all' = fm_out_all \o r.audio
    /\ fm_calls' = fm_calls + 1
    /\ fm_last' = "demodulate"
    /\ UNCHANGED <<lifeVars, cmdVars, pipeVars, displayVars, audioVars,
                   streamVars, lockVars, batchVars, resampleVars>>

\* dsp/demod/fm.rs 61-64: reset; the histories start again with the fields
FmDemodulatorReset ==
    /\ ProcessAlive
    /\ fm_last = "demodulate"
    /\ fm' = FmReset(fm)
    /\ fm_fed' = <<>>
    /\ fm_out_all' = <<>>
    /\ fm_calls' = 0
    /\ fm_last' = "reset"
    /\ UNCHANGED <<lifeVars, cmdVars, pipeVars, displayVars, audioVars,
                   streamVars, lockVars, batchVars, resampleVars>>
    /\ UNCHANGED <<fm_last_in, fm_last_out>>

InitFm ==
    /\ InitCommon
    /\ InitThreadsRunning
    /\ InitBatchIdle
    /\ InitResampleIdle
    /\ mode = ModeFmNarrow

NextFm ==
    \/ FmDemodulatorConstruct
    \/ FmDemodulatorDemodulate
    \/ FmDemodulatorReset

SpecFm == InitFm /\ [][NextFm]_vars

\* ------------------------------------------------------------ properties

AllThreadsOver == \A t \in Threads : ~Running(t)

\* a step in which the command thread receives and handles a command
CmdStep ==
    /\ thread["cmd"] = "recv"
    /\ command_q # <<>>
    /\ thread'["cmd"] # "recv"

\* a step in which the acquisition callback finishes its try_send
SendStep ==
    /\ thread["acq"] = "send"
    /\ thread'["acq"] = "idle"

\* a step in which the DSP thread receives a batch
RecvStep == received' # received

StrictlyIncreasing(q) == \A i \in 1..Len(q) - 1 : q[i] < q[i + 1]

\* C1: the IQ channel never holds more than 64 batches; a batch offered to the
\* full channel is dropped and leaves the channel as it was; and the try_send
\* step of the callback is always able to run, whatever the DSP thread does.
C1_BoundedNonBlockingSend ==
    /\ [](Len(samples_ch) <= SAMPLES_CHANNEL_CAP)
    /\ [](thread["acq"] = "send" => ENABLED AcqCallbackSend)
    /\ [][SendStep /\ Len(samples_ch) = SAMPLES_CHANNEL_CAP
            => samples_ch' = samples_ch /\ acq_last' = "dropped"]_vars

\* C1 witness: a batch has just been dropped at a full channel with the DSP
\* thread alive
C1_Witness ==
    /\ acq_last = "dropped"
    /\ Len(samples_ch) = SAMPLES_CHANNEL_CAP
    /\ SamplesRxAlive
    /\ thread["acq"] = "idle"

\* C2: what the DSP thread has received, followed by what is still queued, is a
\* strictly increasing sequence of sequence numbers of batches produced: an
\* order-preserving subsequence of the produced batches without duplicates.
C2_ReceivedIsSubsequence ==
    /\ StrictlyIncreasing(received \o samples_ch)
    /\ \A i \in 1..Len(received) : received[i] \in 1..produced

\* C2 witness: a later batch was received although an earlier one was dropped
C2_Witness ==
    \E i \in 1..Len(received) - 1 : received[i + 1] > received[i] + 1

\* C3: once the shutdown flag is set, eventually every spawned thread has left
\* its loop (or the process has exited, which the joins returning allow).
C3_ShutdownEndsThreads ==
    shutdown ~> (AllThreadsOver \/ main_pc = "exited")

\* C4: when the process exits, every thread it spawned has been joined.
C4_AllSpawnedJoined ==
    main_pc = "exited" => \A t \in Threads : thread[t] # "unspawned" => t \in joined

\* C5: after SetFrequency(f) the hardware was asked for clamp(f, 24 MHz,
\* 1.766 GHz), and if it accepted, Receiver State holds that clamped value.
C5_SetFrequencyClamped ==
    last_cmd.op = "SetFrequency" =>
        /\ hw_call.op = "set_center_freq"
        /\ hw_call.arg = (IF last_cmd.arg < MIN_FREQUENCY THEN MIN_FREQUENCY
                          ELSE IF last_cmd.arg > MAX_FREQUENCY THEN MAX_FREQUENCY
                          ELSE last_cmd.arg)
        /\ hw_call.ok => sdr.frequency = hw_call.arg /\ dev.freq = hw_call.arg

\* C5 witness: an out-of-range SetFrequency was accepted and its clamped value,
\* not the raw one, is in Receiver State
C5_Witness ==
    /\ last_cmd.op = "SetFrequency"
    /\ last_cmd.arg > MAX_FREQUENCY
    /\ hw_call.ok
    /\ sdr.frequency = MAX_FREQUENCY

\* C6: Receiver State's frequency and sample rate stay within the hardware's
\* ranges in every reachable state.
C6_ConfigInRange ==
    /\ sdr.frequency >= MIN_FREQUENCY /\ sdr.frequency <= MAX_FREQUENCY
    /\ sdr.sample_rate >= MIN_SAMPLE_RATE /\ sdr.sample_rate <= MAX_SAMPLE_RATE

\* C7: the rate SetSampleRate(r) passes to the hardware lies in
\* [225 kHz, 3.2 MHz].
C7_SampleRateClamped ==
    last_cmd.op = "SetSampleRate" =>
        /\ hw_call.op = "set_sample_rate"
        /\ hw_call.arg >= MIN_SAMPLE_RATE /\ hw_call.arg <= MAX_SAMPLE_RATE

\* C8: a step that handles a command the hardware rejects leaves Receiver State
\* as it was and takes the command thread back to the top of its loop.
C8_RejectedLeavesState ==
    [][CmdStep /\ ~hw_call'.ok
         => /\ sdr' = sdr /\ mode' = mode /\ should_quit' = should_quit
            /\ thread'["cmd"] = "check"]_vars

\* C8 witness: after a rejected command the thread is receiving again with a
\* later command waiting
C8_Witness ==
    /\ ~hw_call.ok
    /\ last_cmd # NoCommand
    /\ thread["cmd"] = "recv"
    /\ command_q # <<>>

AdjustCommand(c) == c.op \in {"IncreaseFrequency", "DecreaseFrequency"}

\* C9 as claimed: handling again the command just handled (and accepted by the
\* hardware) leaves Receiver State and the device configuration unchanged, for
\* every command.
C9_AllCommandsIdempotent ==
    [][CmdStep /\ Head(command_q) = last_cmd /\ hw_call.ok
         => sdr' = sdr /\ dev' = dev /\ mode' = mode]_vars

\* C9 as amended: the same, for every command except IncreaseFrequency and
\* DecreaseFrequency.
C9_AbsoluteCommandsIdempotent ==
    [][CmdStep /\ Head(command_q) = last_cmd /\ hw_call.ok
          /\ ~AdjustCommand(last_cmd)
         => sdr' = sdr /\ dev' = dev /\ mode' = mode]_vars

\* C9 witness: a SetFrequency accepted by the hardware has been handled a second
\* time, and accepted again
C9_Witness ==
    /\ repeated
    /\ last_cmd.op = "SetFrequency"
    /\ hw_call.ok
    /\ sdr.frequency = SetFrequencyTarget(last_cmd.arg)

\* C10: once SetMode(m) has been consumed, decoder.mode is m, and every batch the
\* DSP thread receives from then on is demodulated by the demodulator of m.
C10_SetModeTakesEffect ==
    /\ [](last_cmd.op = "SetMode" => mode = last_cmd.arg)
    /\ [][last_cmd.op = "SetMode" /\ RecvStep
            => dsp_demod' = Demodulator(last_cmd.arg)]_vars

\* C11: once StartRecording(path) has been consumed, the recording sub-record is
\* active with that path, a samples-written counter of 0 and a start timestamp;
\* once StopRecording has been consumed, it is inactive.
C11_RecordingFollowsCommands ==
    /\ last_cmd.op = "StartRecording" =>
          /\ recording.is_recording
          /\ recording.file_path = SomeArg(last_cmd.arg)
          /\ recording.samples_recorded = 0
          /\ recording.start_time.some
    /\ last_cmd.op = "StopRecording" => ~recording.is_recording

\* C12: when run has aborted because the device could not be opened, no thread
\* has been started.
C12_OpenFailureBeforeThreads ==
    run_result = OpenError => \A t \in Threads : thread[t] = "unspawned"

InRange(v) == v >= -ONE /\ v <= ONE

\* C13: every audio sample in the ring buffer and every audio sample of a batch
\* on the channel to the streaming thread lies in [-1, 1].
C13_AudioSamplesClamped ==
    /\ \A i \in 1..Len(ring) : InRange(ring[i].v)
    /\ \A i \in 1..Len(stream_ch) :
          \A k \in 1..Len(stream_ch[i].samples) : InRange(stream_ch[i].samples[k])

\* a step in which the DSP thread offers one sample to the ring
PushStep == offered' = offered + 1

\* the numbers of the samples in the ring increase from the oldest to the newest
RingIncreasing(rb) ==
    \A i \in 1..Len(rb) :
        /\ rb[i].count >= 1
        /\ i < Len(rb) => rb[i].n + rb[i].count <= rb[i + 1].n

\* C14: the ring never holds more than 48000 samples; the push step of the DSP
\* thread is always able to run; a sample offered to the full ring is dropped
\* and leaves the ring as it was; and the samples popped, followed by the
\* samples still queued, carry increasing numbers of samples offered: an
\* order-preserving subsequence of the samples offered.
C14_RingBoundedInOrder ==
    /\ [](RingLen(ring) <= AUDIO_BUFFER_SIZE)
    /\ [](thread["dsp"] = "push" => ENABLED DspPushSample)
    /\ [][PushStep /\ RingLen(ring) = AUDIO_BUFFER_SIZE
            => ring' = ring /\ ring_last' = "dropped"]_vars
    /\ [](/\ StrictlyIncreasing(popped)
          /\ RingIncreasing(ring)
          /\ \A i \in 1..Len(popped) : popped[i] \in 1..offered
          /\ ring # <<>> =>
                /\ ring[Len(ring)].n + ring[Len(ring)].count - 1 <= offered
                /\ popped # <<>> => popped[Len(popped)] < ring[1].n)

\* C14 witness: the output callback has popped samples, and the ring holds a
\* sample offered after one that was dropped at the full ring
C14_Witness ==
    /\ popped # <<>>
    /\ \E i \in 1..(Len(ring) - 1) : ring[i].n + ring[i].count < ring[i + 1].n

\* a step in which the DSP thread finishes its try_send to the streaming thread
StreamSendStep == stream_sent' = stream_sent + 1

\* C15: the channel to the streaming thread never holds more than 64 batches;
\* the try_send step of the DSP thread is always able to run, whatever the
\* streaming thread does; and it either appends the whole audio batch or leaves
\* the channel as it was, which it does when the channel is full.
C15_StreamSendWholeOrDropped ==
    /\ [](Len(stream_ch) <= STREAM_CHANNEL_CAP)
    /\ [](thread["dsp"] = "stream" => ENABLED DspStreamSend)
    /\ [][StreamSendStep =>
            \/ stream_ch' = stream_ch /\ stream_last' = "dropped"
            \/ /\ stream_ch' = Append(stream_ch,
                                        AudioBatch(stream_sent + 1, dsp_audio))
               /\ stream_last' = "sent"]_vars
    /\ [][StreamSendStep /\ Len(stream_ch) = STREAM_CHANNEL_CAP
            => stream_ch' = stream_ch /\ stream_last' = "dropped"]_vars

\* C15 witness: with the streaming thread inside a write to a listener, a batch
\* was dropped at the full channel and the DSP thread is back at the top of its
\* loop
C15_Witness ==
    /\ thread["stream"] = "write"
    /\ stream_last = "dropped"
    /\ Len(stream_ch) = STREAM_CHANNEL_CAP
    /\ thread["dsp"] = "check"

\* a step of the output callback
SlotStep == audio_out' # audio_out

\* C16: the output callback is able to run whenever the audio output exists; a
\* slot step writes the oldest sample of the ring and removes it, or silence when
\* the ring is empty; slots written without a sample hold 0.0.
C16_CallbackNeverBlocks ==
    /\ [](AudioOutputAlive /\ callbacks < MaxCallbacks => ENABLED AudioCallbackSlot)
    /\ [][SlotStep =>
            LET slot == audio_out'[Len(audio_out')]
            IN  IF ring = <<>>
                THEN slot.v = 0 /\ slot.n = 0 /\ ring' = ring
                ELSE /\ slot = Sample(ring[1].n, ring[1].v)
                     /\ RingLen(ring') = RingLen(ring) - 1]_vars
    /\ [](\A i \in 1..Len(audio_out) : audio_out[i].n = 0 => audio_out[i].v = 0)

\* C16 witness: after a callback that popped samples, a whole output buffer was
\* written from the empty ring and is silent
C16_Witness ==
    /\ popped # <<>>
    /\ ring = <<>>
    /\ Len(audio_out) = OutputSlots
    /\ \A i \in 1..OutputSlots : audio_out[i] = NoSample

\* C17: once more rows than its capacity have been added, the waterfall display
\* is exactly the capacity most recently added rows, oldest first.
C17_WaterfallKeepsNewest ==
    rows_added > MAX_WATERFALL_HISTORY =>
        GetWaterfallDisplay(spectrum) =
            [i \in 1..MAX_WATERFALL_HISTORY |->
                rows_added - MAX_WATERFALL_HISTORY + i]

\* C17 witness: two rows more than the capacity have been added
C17_Witness ==
    /\ rows_added = MAX_WATERFALL_HISTORY + 2
    /\ spectrum.waterfall_index = 2

\* C18: the message list holds at most max_messages messages, and they are the
\* most recently added ones in arrival order.
C18_MessagesKeepNewest ==
    LET kept == Min2(msgs_added, MAX_MESSAGES)
    IN  /\ Len(messages) <= MAX_MESSAGES
        /\ messages = [i \in 1..kept |-> msgs_added - kept + i]

\* C18 witness: two messages more than the capacity have been added
C18_Witness ==
    /\ msgs_added = MAX_MESSAGES + 2
    /\ Len(messages) = MAX_MESSAGES

\* batches forwarded so far that listener i of the active set has been written
WrittenUpTo(i) ==
    IF thread["stream"] = "write" /\ i >= stream_i THEN Len(forwarded) - 1
    ELSE Len(forwarded)

\* operations that are one read or one write of a field of Receiver State
FieldAccess ==
    {"read_fields", "read_frequency", "write_frequency", "add_fft_data",
     "read_mode"}

\* C19: a thread that holds the lock of Receiver State is in a read or a write
\* of its fields: not in a device call, a channel operation, a spectral or
\* demodulation computation, or the rendering of a widget.
C19_LockOnlyForFieldAccess ==
    \A t \in LockThreads : Holds(t) => lock_pc[t] \in FieldAccess

\* C20: a listener whose write failed is not in the active set and is never
\* written again; every other listener stays in the set; and each active
\* listener has been written every batch forwarded since it was accepted, in
\* forwarding order.
C20_FailedListenerDropped ==
    /\ [](\A i \in 1..Len(clients) : clients[i] \notin failed)
    /\ [][\A c \in failed : written'[c] = written[c]]_vars
    /\ [][\A i \in 1..Len(clients) :
            \/ clients[i] \in failed'
            \/ \E j \in 1..Len(clients') : clients'[j] = clients[i]]_vars
    /\ [](\A i \in 1..Len(clients) :
            written[clients[i]] =
                SubSeq(forwarded, joined_at[clients[i]] + 1, WrittenUpTo(i)))

\* C20 witness: the first listener was written a batch and then failed, and the
\* second has been written more batches than it
C20_Witness ==
    /\ failed = {1}
    /\ clients = <<2>>
    /\ written[1] # <<>>
    /\ Len(written[2]) > Len(written[1])

\* the batch in work has been through process
FftDone == batch_pc = "demod"

\* the batch in work has been demodulated
BatchDone == batch_pc = "convert" /\ batches > 0

\* C21: process returns size values whatever the length of the batch, and its
\* input is the first size samples of the batch, windowed, followed by zeros:
\* nothing of an earlier batch is left behind a short one.
C21_FftLengthAndPadding ==
    FftDone =>
        /\ Len(fft_result) = fft_size
        /\ Len(input_buffer) = fft_size
        /\ \A i \in 1..fft_size :
              input_buffer[i] =
                  IF i <= Len(iq) THEN Windowed(iq[i], HannWindow(fft_size)[i])
                  ELSE ComplexZero

\* C21 witness: a batch shorter than the transform was processed after one that
\* had left samples in the region now padded
C21_Witness ==
    /\ FftDone
    /\ Len(iq) < fft_size
    /\ \E i \in (Len(iq) + 1)..fft_size :
          /\ fft_prev_in[i] # ComplexZero
          /\ input_buffer[i] = ComplexZero

\* C22: the value of transform bin i is at output index (i + size/2) mod size,
\* for every i and every size.
C22_ShiftIsPermutation ==
    FftDone =>
        \A i \in 0..(fft_size - 1) :
            fft_result[((i + fft_size \div 2) % fft_size) + 1].bin = i

FmModes == {ModeFmNarrow, ModeFmWide}

\* C23: in the FM modes a batch of n >= 2 IQ samples gives n - 1 audio samples
\* and a shorter one gives none; the lowpass and the de-emphasis return as many
\* samples as they are given.
C23_FmLength ==
    BatchDone /\ mode \in FmModes =>
        LET n == Len(iq)
            wideband == mode = ModeFmWide
            disc == FmDiscriminator(iq)
            filtered == LowpassFilter(disc, FmFilterSize(wideband))
        IN  /\ audio_last.some
            /\ Len(audio_last.val) = IF n >= 2 THEN n - 1 ELSE 0
            /\ Len(filtered) = Len(disc)
            /\ Len(ApplyDeemphasis(filtered, wideband)) = Len(filtered)

\* C23 witness: wideband FM has demodulated a batch of three or more samples
C23_Witness ==
    /\ BatchDone
    /\ mode = ModeFmWide
    /\ Len(iq) >= 3
    /\ Len(audio_last.val) = Len(iq) - 1

\* C24: an empty IQ batch goes through every step: the transform returns size
\* bins, every demodulating mode returns an empty audio batch, and the next
\* batch can be taken.
C24_EmptyBatchProcessed ==
    iq = <<>> =>
        /\ batch_pc = "fft" => ENABLED BatchFft
        /\ batch_pc = "demod" => ENABLED BatchDemodulate /\ Len(fft_result) = fft_size
        /\ BatchDone =>
              /\ mode # ModeRaw => audio_last.some /\ audio_last.val = <<>>
              /\ Len(fft_result) = fft_size
              /\ batches < MaxDspBatches => ENABLED BatchConvert

\* C24 witness: AM has processed an empty batch and the next one can be taken
C24_Witness ==
    /\ BatchDone
    /\ iq = <<>>
    /\ mode = ModeAm
    /\ audio_last.some
    /\ batches = 1
    /\ ENABLED BatchConvert

\* C25: the de-emphasis of a batch uses 50 microseconds in wideband FM and 75
\* microseconds in the narrowband modes.
C25_DeemphasisTau ==
    tau_us # 0 => tau_us = IF mode = ModeFmWide THEN 50 ELSE 75

\* C26: in an FM mode the audio of the batches processed one after the other
\* is the audio of their concatenation processed as one batch.
C26_FmSeamless ==
    BatchDone /\ mode \in FmModes =>
        audio_total = DemodulateFm(iq_all, mode = ModeFmWide)

\* the samples given to the Resampler since its phase was last 0
RsInput == [k \in 1..rs_fed |-> RsValue(k)]

\* C27: the outputs of consecutive calls of resample, concatenated, are the
\* output of one call on the concatenated input from phase 0.
C27_ResampleSeamless ==
    rs_last = "resample" =>
        rs_out_all = Resample(RsInput, 0, rs_rates).output

C29_U8ToComplex ==
    batch_pc # "convert" \/ batches > 0 =>
        /\ Len(iq) = Len(raw) \div 2
        /\ \A j \in 1..Len(iq) :
              /\ 128 * iq[j].re = ONE * raw[2 * j - 1] - 255 * (ONE \div 2)
              /\ 128 * iq[j].im = ONE * raw[2 * j] - 255 * (ONE \div 2)
              /\ -ONE < iq[j].re /\ iq[j].re < ONE
              /\ -ONE < iq[j].im /\ iq[j].im < ONE

\* C29 witness: a block of three bytes has given one IQ sample
C29_Witness ==
    /\ batch_pc = "fft"
    /\ Len(raw) = 3
    /\ Len(iq) = 1

\* C30: between commands the configuration in Receiver State is the one the
\* hardware last accepted: the same frequency, sample rate and PPM, automatic
\* gain in the state exactly when the AGC of the device is on, and in manual
\* mode the same gain value.
C30_StateMirrorsDevice ==
    /\ sdr.frequency = dev.freq
    /\ sdr.sample_rate = dev.rate
    /\ sdr.ppm_error = dev.ppm
    /\ sdr.auto_gain <=> dev.agc
    /\ ~sdr.auto_gain => sdr.tuner_gain = dev.gain

\* C31: a step that handles IncreaseFrequency(d) or DecreaseFrequency(d) which the
\* hardware accepts sets the frequency to clamp(f + d) or clamp(f - d), with d
\* taken as a signed number: a negative d moves the other way.
C31_AdjustIsSignedClamp ==
    [][CmdStep /\ AdjustCommand(Head(command_q)) /\ hw_call'.ok
         => LET d == Head(command_q).arg
                signed == IF Head(command_q).op = "IncreaseFrequency"
                          THEN sdr.frequency + d
                          ELSE sdr.frequency - d
            IN  sdr'.frequency = Clamp(signed, MIN_FREQUENCY, MAX_FREQUENCY)]_vars

\* the DSP thread is between two batches
AtBatchBoundary == thread["dsp"] \in {"check", "recv", "stopped"}

\* the audio batch the demodulator of the current mode makes of batch b
AudioOf(b) == Demodulate(mode, SamplesU8ToComplex(RawBlock(b)))

\* samples of the audio batches of the first k batches received
RECURSIVE AudioSamplesOf(_)
AudioSamplesOf(k) ==
    IF k = 0 THEN 0 ELSE AudioSamplesOf(k - 1) + Len(AudioOf(received[k]).val)

\* C32: each batch received adds exactly one spectrum row, which becomes the
\* latest spectrum, in every mode; in Raw mode nothing is offered to the audio
\* ring or to the network channel; in every other mode, by the time the DSP
\* thread is ready for the next batch, every sample of the audio batch made of
\* that IQ batch has been offered to the ring and, when the streaming server
\* was started, the whole batch has been offered once to its channel.
C32_OneRowOneAudioBatch ==
    /\ rows_added = Len(received)
    /\ spectrum.fft_data = rows_added
    /\ spectrum.waterfall = [k \in 1..Len(received) |-> k]
    /\ mode = ModeRaw =>
         /\ offered = 0 /\ ring = <<>>
         /\ stream_sent = 0 /\ stream_ch = <<>>
         /\ AtBatchBoundary
    /\ ~AtBatchBoundary => dsp_audio = AudioOf(received[Len(received)]).val
    /\ AtBatchBoundary /\ mode # ModeRaw =>
         /\ offered = AudioSamplesOf(Len(received))
         /\ RingLen(ring) = offered
         /\ stream_sent = (IF StreamTxSome THEN Len(received) ELSE 0)
         /\ stream_ch = [k \in 1..stream_sent |->
                           AudioBatch(k, AudioOf(received[k]).val)]

\* C32 witness: with the streaming server started and a demodulating mode, all
\* queued batches have gone through: one row and one network batch each, and
\* their samples in the ring
C32_Witness ==
    /\ mode = ModeAm
    /\ StreamTxSome
    /\ thread["dsp"] = "check"
    /\ Len(received) = AudioBatches
    /\ rows_added = AudioBatches
    /\ Len(stream_ch) = AudioBatches
    /\ offered > AudioBatches

\* a step in which the DSP thread leaves its loop
DspExitStep == thread["dsp"] # "stopped" /\ thread'["dsp"] = "stopped"

\* a step in which recv_timeout of the DSP thread times out
DspTimeoutStep ==
    /\ thread["dsp"] = "recv" /\ thread'["dsp"] # "recv"
    /\ samples_ch = <<>> /\ SamplesTxAlive

\* C33: the DSP thread leaves its loop only from the top of an iteration with
\* the shutdown flag set, or from its receive with the channel empty and the
\* sender gone; when it has left, every batch it received has its row and all
\* its audio samples offered; a receive timeout changes nothing and leads back
\* to the flag check.
C33_ExitOnlyAtBatchBoundary ==
    /\ [][DspExitStep =>
            \/ thread["dsp"] = "check" /\ shutdown
            \/ thread["dsp"] = "recv" /\ samples_ch = <<>> /\ ~SamplesTxAlive]_vars
    /\ [](thread["dsp"] = "stopped" =>
            /\ rows_added = Len(received)
            /\ offered = AudioSamplesOf(Len(received))
            /\ dsp_audio = <<>>)
    /\ [][DspTimeoutStep =>
            /\ thread'["dsp"] = "check"
            /\ UNCHANGED <<pipeVars, sinkVars, cmdVars, shutdown>>]_vars

\* C33 witness: the flag is set and the thread has left its loop with every
\* batch it received complete, while batches it never received are still in the
\* channel
C33_Witness ==
    /\ shutdown
    /\ thread["dsp"] = "stopped"
    /\ Len(received) > 0
    /\ offered = AudioSamplesOf(Len(received))
    /\ offered > 0
    /\ samples_ch # <<>>

\* C34: a call of demodulate on an FmDemodulator returns one audio sample for
\* each input sample, each in [-1, 1]; and the calls made on one instance since
\* it was constructed or reset return, one after the other, what one call on
\* the concatenated input returns on an instance in that initial state.
C34_PersistentFmSeamless ==
    /\ Len(fm_last_out) = Len(fm_last_in)
    /\ \A i \in 1..Len(fm_out_all) : fm_out_all[i] >= -ONE /\ fm_out_all[i] <= ONE
    /\ Len(fm_out_all) = Len(fm_fed)
    /\ fm_out_all = FmDemodulate(FmReset(fm), fm_fed).audio
    /\ fm = FmDemodulate(FmReset(fm), fm_fed).d

\* C34 witness: two calls on non-empty inputs, the second starting from a
\* previous sample and a filter memory the first one left
C34_Witness ==
    /\ fm_calls = 2
    /\ Len(fm_last_in) >= 2
    /\ Len(fm_fed) > Len(fm_last_in)
    /\ fm_out_all[Len(fm_fed) - Len(fm_last_in)] # 0
    /\ fm_last_out # FmDemodulate(FmReset(fm), fm_last_in).audio

\* C35: every call of resample returns; after it the phase is at
\* least 0 and below 1 / ratio (rs_rates.in, in units of 1 / output_rate); and a
\* call on an empty or single-sample input returns nothing and leaves the phase
\* as it was.
C35_PhaseBoundedAndTerminates ==
    /\ rs_last # "hung"
    /\ rs_phase >= 0 /\ rs_phase < rs_rates.in
    /\ \A n \in {0, 1} :
         LET r == Resample([k \in 1..n |-> RsValue(k)], rs_phase, rs_rates)
         IN  r.output = <<>> /\ r.phase = rs_phase

\* out[i] is the average of exactly w consecutive samples of input, i among them
AveragesWindowOf(input, out, i, w) ==
    \E s \in 1..(Len(input) - w + 1) :
        /\ s <= i /\ i <= s + w - 1
        /\ out[i] = Div(SumSeq(SubSeq(input, s, s + w - 1)), w)

\* the filter returns one output for each input and, at every index at least
\* w / 2 away from both ends, the average of exactly w consecutive inputs
LowpassAveragesExactly(input, w) ==
    LET out == LowpassFilter(input, w)
    IN  /\ Len(out) = Len(input)
        /\ \A i \in 1..Len(input) :
              i - w \div 2 >= 1 /\ i + w \div 2 <= Len(input)
                  => AveragesWindowOf(input, out, i, w)

\* C36: the moving average the demodulators apply (window 4 in the SSB modes and
\* narrowband FM, 8 in wideband FM) returns one output for each input, and away
\* from the ends of the batch each output is the average of exactly as many
\* consecutive inputs as the window says.
C36_LowpassExactWindow ==
    BatchDone =>
        /\ mode \in {ModeUsb, ModeLsb} =>
              /\ audio_last.val =
                     LowpassFilter(SsbProduct(iq, mode = ModeUsb), SsbFilterSize)
              /\ LowpassAveragesExactly(SsbProduct(iq, mode = ModeUsb),
                                        SsbFilterSize)
        /\ mode \in FmModes =>
              LowpassAveragesExactly(FmDiscriminator(iq),
                                     FmFilterSize(mode = ModeFmWide))

\* C37: in every result of process, a bin of magnitude at most 1e-10 has exactly
\* -100 dB, no value is below -100 dB, and a batch that is empty or all zero
\* gives -100 dB at every index.
C37_FloorAtMinus100 ==
    FftDone =>
        /\ \A k \in 1..Len(fft_result) :
              /\ fft_result[k].mag.zero \/ fft_result[k].mag.db20 <= THRESHOLD_DB
                    => fft_result[k].db = FLOOR_DB
              /\ fft_result[k].db >= FLOOR_DB
        /\ (\A i \in 1..Len(iq) : iq[i] = ComplexZero) =>
              \A k \in 1..Len(fft_result) : fft_result[k].db = FLOOR_DB

\* C38: in every state of Receiver State, auto_gain is true exactly when
\* tuner_gain is -1.
C38_GainFieldsAgree ==
    sdr.auto_gain <=> sdr.tuner_gain = AUTO_GAIN

\* C39 as claimed: once the shutdown flag is set, no try_send of the callback
\* adds a batch to the IQ channel.
C39_NoSendAfterFlag ==
    [][shutdown /\ SendStep => samples_ch' = samples_ch]_vars

\* C39 as amended: once the flag is set, a callback that has not yet read it
\* builds no batch and never reaches its try_send, and nothing is added to the
\* channel; only a callback that read the flag before the store may still
\* enqueue its one batch.
C39_OnlyInFlightBatchAfterFlag ==
    [][shutdown /\ thread["acq"] # "send"
         => /\ thread'["acq"] # "send"
            /\ produced' = produced
            /\ Len(samples_ch') <= Len(samples_ch)]_vars

\* C39 witness: with the flag set, the device has called back again and the
\* callback skipped the block, leaving the queued batches as they were
C39_Witness ==
    /\ shutdown
    /\ acq_last = "skipped"
    /\ thread["acq"] = "idle"
    /\ samples_ch # <<>>
    /\ samples_ch[Len(samples_ch)] = produced

\* the thread is at a statement that takes the lock of Receiver State
RequestsLock(t) ==
    CASE t = "cmd" -> \/ lock_pc[t] = "lock_frequency"
                      \/ lock_pc[t] = "idle" /\ command_q # <<>>
      [] t = "dsp" -> lock_pc[t] \in {"compute_fft", "lock_mode"}
      [] OTHER -> FALSE

\* C40: a thread that requests the lock of Receiver State holds no guard on it,
\* and, while the UI thread takes its read lock again and again, each write
\* lock the command thread or the DSP thread requests, and the read lock of the
\* DSP thread, is eventually granted.
C40_LockEventuallyGranted ==
    /\ [](\A t \in LockThreads : RequestsLock(t) => ~Holds(t))
    /\ [](lock_pc["main"] = "idle" => ~Holds("main"))
    /\ (RequestsLock("cmd") ~> lock.writer = "cmd")
    /\ (lock_pc["dsp"] = "compute_fft" ~> lock.writer = "dsp")
    /\ (lock_pc["dsp"] = "lock_mode" ~> "dsp" \in lock.readers)

\* C40 witness: the command thread holds the write lock it asked for while the
\* UI thread held its read guard, with the DSP thread waiting for its own
C40_Witness ==
    /\ lock.writer = "cmd"
    /\ lock_pc["cmd"] = "write_frequency"
    /\ lock_pc["dsp"] = "compute_fft"
    /\ lock_pc["main"] = "idle"
    /\ rows_added > 0

====
